---------------------------- MODULE Spec2Model ----------------------------
(***************************************************************************)
(* Verification model of the ChessGames plugin: the session registry and   *)
(* waiting queue of core/game_manager.py, the PvP / surrender commands of  *)
(* handlers/command_handler.py and the two board engines of games/; and of *)
(* the engine of the RussianRoulette plugin (game.py).                     *)
(*                                                                         *)
(* Python values are modelled as follows.  A dict is a function whose      *)
(* DOMAIN is its key set, a list is a sequence, None is the string "None"  *)
(* (or a record whose kind is "None"), a raised exception is a result      *)
(* whose kind names the exception.  time.time() / datetime.utcnow() is the *)
(* variable now, in seconds.                                               *)
(***************************************************************************)
EXTENDS Integers, Sequences, FiniteSets, TLC

VARIABLES
    active_games,     \* GameManager.active_games   {game_id: GameSession}
    user_games,       \* GameManager.user_games     {user_id: game_id}
    group_games,      \* GameManager.group_games    {group_id: [game_id]}
    bot_games,        \* GameManager.bot_games      {bot_id: [game_id]}
    waiting_players,  \* GameManager.waiting_players {group_id: {game_type: [(user, ts)]}}
    now,              \* the wall clock, seconds
    ttt,              \* a TicTacToe instance
    gomoku,           \* a Gomoku instance
    engine,           \* which board engine the run exercises
    lane,             \* which cells the Gomoku players pick their moves from
    text,             \* the str a caller keeps passing to Gomoku.make_move
    roulette,         \* a RussianRouletteGame instance, or None
    threads,          \* the calls in progress: one frame per handler thread or task
    saved,            \* the game records persisted by _save_game_result, in order
    last              \* the last call: its name, arguments and result

vars == <<active_games, user_games, group_games, bot_games, waiting_players,
          now, ttt, gomoku, engine, lane, text, roulette, threads, saved, last>>

registry == <<active_games, user_games, group_games, bot_games>>

\* the state outside the ChessGames registry, queue and boards
elsewhere == <<roulette, threads, saved>>

----------------------------------------------------------------------------
(* Bounds of the model and the identifiers the commands are drawn from.    *)

MaxTime == 90          \* the clock stops here
TickStep == 30         \* seconds per clock step
SecondsPerMinute == 60 \* timeout_minutes * 60, timedelta(minutes=...)

Players == {"u1", "u2"}
AI == "AI"
Groups == {"g1", "g2"}
GameTypes == {"tictactoe", "gomoku"}
Bots == {0, 1}
WaitTimeouts == {1, 2}     \* timeout_minutes of add_waiting_player
GameTimeouts == {0, 1}     \* timeout_minutes of cleanup_timeout_games

None == "None"

----------------------------------------------------------------------------
(* dict and list helpers                                                   *)

EmptyDict == [k \in {} |-> None]

DictSet(d, k, v) == [x \in (DOMAIN d) \cup {k} |-> IF x = k THEN v ELSE d[x]]

DictDel(d, k) == [x \in (DOMAIN d) \ {k} |-> d[x]]

SeqContains(s, x) == \E i \in DOMAIN s : s[i] = x

\* list.remove(x): drops the first occurrence
SeqRemoveFirst(s, x) ==
    IF ~SeqContains(s, x) THEN s
    ELSE LET i == CHOOSE j \in DOMAIN s :
                      s[j] = x /\ \A k \in 1..(j - 1) : s[k] # x
         IN  SubSeq(s, 1, i - 1) \o SubSeq(s, i + 1, Len(s))

\* list.pop(i), 1-based here
SeqPop(s, i) == SubSeq(s, 1, i - 1) \o SubSeq(s, i + 1, Len(s))

----------------------------------------------------------------------------
(* GameSession and the registry                                            *)

\* f"{game_type}_{group_id}_{player1_id}_{timestamp}": the four parts of the
\* id, kept apart (the identifiers of the model hold no underscore).
generate_game_id(game_type, player1_id, group_id, t) ==
    <<game_type, group_id, player1_id, t>>

NoGame == [kind |-> None]

GameSession(game_id, game_type, player1_id, player2_id, group_id, bot_id, t) ==
    [game_id        |-> game_id,
     game_type      |-> game_type,
     player1_id     |-> player1_id,
     player2_id     |-> player2_id,
     group_id       |-> group_id,
     bot_id         |-> bot_id,
     current_player |-> player1_id,
     start_time     |-> t,
     last_move_time |-> t,
     moves_count    |-> 0,
     game_state     |-> NoGame,
     is_finished    |-> FALSE,
     winner_id      |-> None,
     is_ai_game     |-> (player2_id = AI)]

is_player_in_game(session, player_id) ==
    player_id \in {session.player1_id, session.player2_id}

is_timeout(session, timeout_minutes, t) ==
    t - session.last_move_time > timeout_minutes * SecondsPerMinute

get_opponent(session, player_id) ==
    IF player_id = session.player1_id THEN session.player2_id
    ELSE IF player_id = session.player2_id THEN session.player1_id
    ELSE None

finish_game(session, winner_id) ==
    [session EXCEPT !.is_finished = TRUE, !.winner_id = winner_id]

\* The four maps of the registry as one value.
Reg == [active_games |-> active_games, user_games |-> user_games,
        group_games |-> group_games, bot_games |-> bot_games]

EmptyReg == [active_games |-> EmptyDict, user_games |-> EmptyDict,
             group_games |-> EmptyDict, bot_games |-> EmptyDict]

ListAppend(d, k, x) ==
    IF k \in DOMAIN d THEN [d EXCEPT ![k] = Append(@, x)]
    ELSE DictSet(d, k, <<x>>)

\* The registration half of create_game (lines 115-137).
RegisterGame(r, game_type, player1_id, player2_id, group_id, bot_id, t) ==
    LET game_id == generate_game_id(game_type, player1_id, group_id, t)
        session == GameSession(game_id, game_type, player1_id, player2_id,
                               group_id, bot_id, t)
        ug1 == DictSet(r.user_games, player1_id, game_id)
        ug2 == IF player2_id # AI THEN DictSet(ug1, player2_id, game_id) ELSE ug1
    IN  [raised  |-> FALSE,
         session |-> session,
         reg     |-> [active_games |-> DictSet(r.active_games, game_id, session),
                      user_games   |-> ug2,
                      group_games  |-> ListAppend(r.group_games, group_id, game_id),
                      bot_games    |-> ListAppend(r.bot_games, bot_id, game_id)]]

\* A create_game that checks only its first player.
AlreadyInGame_FirstOnly(r, player1_id, player2_id) ==
    player1_id \in DOMAIN r.user_games

\* The precondition of create_game (lines 110-113): does it raise?
AlreadyInGame(r, player1_id, player2_id) ==
    \/ player1_id \in DOMAIN r.user_games
    \/ player2_id # AI /\ player2_id \in DOMAIN r.user_games

create_game(r, game_type, player1_id, player2_id, group_id, bot_id, t) ==
    IF AlreadyInGame(r, player1_id, player2_id)
    THEN [raised |-> TRUE, session |-> NoGame, reg |-> r]
    ELSE RegisterGame(r, game_type, player1_id, player2_id, group_id, bot_id, t)

\* get_user_game(user_id, group_id) with a group: the first unfinished session
\* of the group that holds the player.
get_user_game(r, user_id, group_id) ==
    LET found == {id \in DOMAIN r.active_games :
                    /\ r.active_games[id].group_id = group_id
                    /\ is_player_in_game(r.active_games[id], user_id)
                    /\ ~r.active_games[id].is_finished}
    IN  IF found = {} THEN NoGame
        ELSE r.active_games[CHOOSE id \in found : TRUE]

\* A remove_game that leaves the index lists as they are.
ListPurge_Keep(d, k, game_id) == d

\* a remove_game that drops the session and leaves the three indices alone
remove_game_ActiveOnly(r, game_id) ==
    IF game_id \notin DOMAIN r.active_games THEN [ok |-> FALSE, reg |-> r]
    ELSE [ok |-> TRUE,
          reg |-> [r EXCEPT !.active_games = DictDel(@, game_id)]]

\* One index list of remove_game: drop the id, drop the key of an empty list.
ListPurge(d, k, game_id) ==
    IF k \notin DOMAIN d THEN d
    ELSE LET l == SeqRemoveFirst(d[k], game_id)
         IN  IF l = <<>> THEN DictDel(d, k) ELSE [d EXCEPT ![k] = l]

remove_game(r, game_id) ==
    IF game_id \notin DOMAIN r.active_games THEN [ok |-> FALSE, reg |-> r]
    ELSE LET session == r.active_games[game_id]
             ug1 == DictDel(r.user_games, session.player1_id)
             ug2 == IF session.player2_id # AI
                    THEN DictDel(ug1, session.player2_id) ELSE ug1
         IN  [ok  |-> TRUE,
              reg |-> [active_games |-> DictDel(r.active_games, game_id),
                       user_games   |-> ug2,
                       group_games  |-> ListPurge(r.group_games, session.group_id, game_id),
                       bot_games    |-> ListPurge(r.bot_games, session.bot_id, game_id)]]

\* remove_game over a list of ids, in order; counts the removals.
RECURSIVE RemoveEach(_, _)
RemoveEach(r, ids) ==
    IF ids = <<>> THEN [count |-> 0, reg |-> r]
    ELSE LET one  == remove_game(r, Head(ids))
             rest == RemoveEach(one.reg, Tail(ids))
         IN  [count |-> rest.count + (IF one.ok THEN 1 ELSE 0), reg |-> rest.reg]

\* A set as a list, in some order.
RECURSIVE SetToSeq(_)
SetToSeq(S) ==
    IF S = {} THEN <<>>
    ELSE LET x == CHOOSE y \in S : TRUE IN <<x>> \o SetToSeq(S \ {x})

cleanup_timeout_games(r, timeout_minutes, t) ==
    LET timeout_games == {id \in DOMAIN r.active_games :
                            is_timeout(r.active_games[id], timeout_minutes, t)}
    IN  [ids |-> timeout_games,
         reg |-> RemoveEach(r, SetToSeq(timeout_games)).reg]

cleanup_bot_games(r, bot_id) ==
    IF bot_id \notin DOMAIN r.bot_games THEN [count |-> 0, reg |-> r]
    ELSE RemoveEach(r, r.bot_games[bot_id])

cleanup_all_games(r) ==
    [count |-> Cardinality(DOMAIN r.active_games), reg |-> EmptyReg]

----------------------------------------------------------------------------
(* The waiting queue.  An entry is the tuple <<user_id, timestamp>>.       *)

HasQueue(wp, group_id, game_type) ==
    group_id \in DOMAIN wp /\ game_type \in DOMAIN wp[group_id]

\* waiting_players[group_id][game_type], or [] when a key is missing
QueueOf(wp, group_id, game_type) ==
    IF HasQueue(wp, group_id, game_type) THEN wp[group_id][game_type] ELSE <<>>

\* del waiting_players[group_id][game_type], then the group's dict when empty
\* (lines 191-193, 220-222, 236-238); both keys exist when it is called.
DelQueue(wp, group_id, game_type) ==
    LET inner == DictDel(wp[group_id], game_type)
    IN  IF DOMAIN inner = {} THEN DictDel(wp, group_id)
        ELSE [wp EXCEPT ![group_id] = inner]

\* [(user_id, timestamp) for ... if current_time - timestamp < timeout_seconds]
valid_players(waiting_list, timeout_minutes, t) ==
    SelectSeq(waiting_list,
              LAMBDA e : t - e[2] < timeout_minutes * SecondsPerMinute)

\* A purge that keeps every entry.
_cleanup_keeps_all(wp, group_id, game_type, timeout_minutes, t) == wp

_cleanup_expired_waiting_players(wp, group_id, game_type, timeout_minutes, t) ==
    IF ~HasQueue(wp, group_id, game_type) THEN wp
    ELSE LET waiting_list == wp[group_id][game_type]
             valid == valid_players(waiting_list, timeout_minutes, t)
         IN  IF Len(valid) # Len(waiting_list)
             THEN IF valid # <<>>
                  THEN [wp EXCEPT ![group_id][game_type] = valid]
                  ELSE DelQueue(wp, group_id, game_type)
             ELSE wp

Opponent(user_id) == [kind |-> "opponent", id |-> user_id]
NoOpponent == [kind |-> None, id |-> None]
KeyError == [kind |-> "KeyError", id |-> None]

\* add_waiting_player.  waiting_list (line 176) is a reference to the list
\* object stored under the two keys.  The cleanup never changes that object:
\* it rebinds the key to a new list or deletes the key, and then the local
\* name no longer refers to what the registry stores (attached is FALSE).
add_waiting_player(wp, user_id, group_id, game_type, timeout_minutes, t) ==
    LET wp1 == IF group_id \in DOMAIN wp THEN wp
               ELSE DictSet(wp, group_id, EmptyDict)
        wp2 == IF game_type \in DOMAIN wp1[group_id] THEN wp1
               ELSE [wp1 EXCEPT ![group_id] = DictSet(@, game_type, <<>>)]
        waiting_list == wp2[group_id][game_type]
        wp3 == _cleanup_expired_waiting_players(wp2, group_id, game_type,
                                                timeout_minutes, t)
        attached == wp3 = wp2
    IN  IF \E i \in DOMAIN waiting_list : waiting_list[i][1] = user_id
        THEN [result |-> NoOpponent, wp |-> wp3]
        ELSE IF waiting_list # <<>>
        THEN LET opponent_id == Head(waiting_list)[1]
                 popped == Tail(waiting_list)
                 wp4 == IF attached
                        THEN [wp3 EXCEPT ![group_id][game_type] = popped]
                        ELSE wp3
             IN  IF popped = <<>>
                 THEN IF HasQueue(wp4, group_id, game_type)
                      THEN [result |-> Opponent(opponent_id),
                            wp |-> DelQueue(wp4, group_id, game_type)]
                      ELSE [result |-> KeyError, wp |-> wp4]
                 ELSE [result |-> Opponent(opponent_id), wp |-> wp4]
        ELSE [result |-> NoOpponent,
              wp |-> [wp3 EXCEPT ![group_id][game_type] =
                                     Append(waiting_list, <<user_id, t>>)]]

remove_waiting_player(wp, user_id, group_id, game_type) ==
    IF /\ HasQueue(wp, group_id, game_type)
       /\ \E i \in DOMAIN wp[group_id][game_type] :
              wp[group_id][game_type][i][1] = user_id
    THEN LET waiting_list == wp[group_id][game_type]
             i == CHOOSE j \in DOMAIN waiting_list :
                      /\ waiting_list[j][1] = user_id
                      /\ \A k \in 1..(j - 1) : waiting_list[k][1] # user_id
             popped == SeqPop(waiting_list, i)
         IN  [ok |-> TRUE,
              wp |-> IF popped = <<>> THEN DelQueue(wp, group_id, game_type)
                     ELSE [wp EXCEPT ![group_id][game_type] = popped]]
    ELSE [ok |-> FALSE, wp |-> wp]

\* get_waiting_players: purges with the fixed timeout of 1 minute, then lists
\* the user ids.
get_waiting_players(wp, group_id, game_type, t) ==
    IF HasQueue(wp, group_id, game_type)
    THEN LET wp1 == _cleanup_expired_waiting_players(wp, group_id, game_type, 1, t)
         IN  [users |-> {QueueOf(wp1, group_id, game_type)[i][1] :
                           i \in DOMAIN QueueOf(wp1, group_id, game_type)},
              wp |-> wp1]
    ELSE [users |-> {}, wp |-> wp]

\* get_waiting_time: whole seconds since the entry was queued, or None (-1)
get_waiting_time(wp, user_id, group_id, game_type, t) ==
    LET q == QueueOf(wp, group_id, game_type)
        mine == {i \in DOMAIN q : q[i][1] = user_id}
    IN  IF mine = {} THEN -1
        ELSE t - q[CHOOSE i \in mine : \A j \in mine : i <= j][2]

----------------------------------------------------------------------------
(* games/base_game.py and games/tictactoe.py                               *)

CONTINUE == "continue"
WIN == "win"
DRAW == "draw"
INVALID == "invalid"

\* BaseGame.switch_player
switch_player(g) ==
    [g EXCEPT !.current_player = IF g.current_player = g.player1_id
                                 THEN g.player2_id ELSE g.player1_id]

\* BaseGame.is_player_turn
is_player_turn(g, player_id) ==
    g.current_player = player_id /\ ~g.is_finished

\* a finish_game that records the winner and leaves the game open
base_finish_game_WinnerOnly(g, winner) ==
    [g EXCEPT !.winner = winner]

\* BaseGame.finish_game
base_finish_game(g, winner) ==
    [g EXCEPT !.is_finished = TRUE, !.winner = winner]

\* player_numbers = {player1_id: 1, player2_id: 2}
player_numbers(g, player_id) ==
    IF player_id = g.player2_id THEN 2 ELSE 1

\* _get_player_by_number
_get_player_by_number(g, number) ==
    IF number = 1 THEN g.player1_id ELSE g.player2_id

MoveResult(result, winner, g) ==
    [result |-> result, winner |-> winner, game |-> g]

TicTacToe(player1_id, player2_id) ==
    [kind           |-> "tictactoe",
     player1_id     |-> player1_id,
     player2_id     |-> player2_id,
     current_player |-> player1_id,
     moves_count    |-> 0,
     is_finished    |-> FALSE,
     winner         |-> None,
     board          |-> [i \in 0..2 |-> [j \in 0..2 |-> 0]]]

\* _position_to_coords: 1..9 -> <<row, col>>
_position_to_coords(position) ==
    <<(position - 1) \div 3, (position - 1) % 3>>

\* _coords_to_position
_coords_to_position(row, col) == row * 3 + col + 1

\* an is_valid_move that looks at the range only
ttt_is_valid_move_RangeOnly(g, move) ==
    ~(move < 1 \/ move > 9)

\* TicTacToe.is_valid_move (every move of the model is an int)
ttt_is_valid_move(g, move) ==
    IF move < 1 \/ move > 9 THEN FALSE
    ELSE LET rc == _position_to_coords(move)
         IN  g.board[rc[1]][rc[2]] = 0

\* TicTacToe.get_available_moves, in its order of enumeration
ttt_get_available_moves(g) ==
    SelectSeq([k \in 1..9 |-> k],
              LAMBDA k : g.board[_position_to_coords(k)[1]]
                                [_position_to_coords(k)[2]] = 0)

\* a _check_winner that looks at the rows and the columns only
ttt_check_winner_NoDiagonals(g) ==
    LET b == g.board
        rows == {i \in 0..2 : b[i][0] # 0 /\ b[i][0] = b[i][1] /\ b[i][1] = b[i][2]}
        cols == {j \in 0..2 : b[0][j] # 0 /\ b[0][j] = b[1][j] /\ b[1][j] = b[2][j]}
    IN  IF rows # {}
        THEN _get_player_by_number(g, b[CHOOSE i \in rows : \A k \in rows : i <= k][0])
        ELSE IF cols # {}
        THEN _get_player_by_number(g, b[0][CHOOSE j \in cols : \A k \in cols : j <= k])
        ELSE None

\* TicTacToe._check_winner: rows, then columns, then the two diagonals
ttt_check_winner(g) ==
    LET b == g.board
        rows == {i \in 0..2 : b[i][0] # 0 /\ b[i][0] = b[i][1] /\ b[i][1] = b[i][2]}
        cols == {j \in 0..2 : b[0][j] # 0 /\ b[0][j] = b[1][j] /\ b[1][j] = b[2][j]}
    IN  IF rows # {}
        THEN _get_player_by_number(g, b[CHOOSE i \in rows : \A k \in rows : i <= k][0])
        ELSE IF cols # {}
        THEN _get_player_by_number(g, b[0][CHOOSE j \in cols : \A k \in cols : j <= k])
        ELSE IF b[0][0] # 0 /\ b[0][0] = b[1][1] /\ b[1][1] = b[2][2]
        THEN _get_player_by_number(g, b[0][0])
        ELSE IF b[0][2] # 0 /\ b[0][2] = b[1][1] /\ b[1][1] = b[2][0]
        THEN _get_player_by_number(g, b[0][2])
        ELSE None

\* TicTacToe._is_board_full
ttt_is_board_full(g) ==
    \A i \in 0..2 : \A j \in 0..2 : g.board[i][j] # 0

\* TicTacToe.make_move, after its three rejections
ttt_apply_move(g, player_id, move) ==
    LET rc == _position_to_coords(move)
        g1 == [g EXCEPT !.board[rc[1]][rc[2]] = player_numbers(g, player_id),
                        !.moves_count = @ + 1]
        winner == ttt_check_winner(g1)
    IN  IF winner # None
        THEN MoveResult(WIN, winner, base_finish_game(g1, winner))
        ELSE IF ttt_is_board_full(g1)
        THEN MoveResult(DRAW, None, base_finish_game(g1, None))
        ELSE MoveResult(CONTINUE, None, switch_player(g1))

\* TicTacToe.make_move
ttt_make_move(g, player_id, move) ==
    IF g.is_finished THEN MoveResult(INVALID, None, g)
    ELSE IF ~is_player_turn(g, player_id) THEN MoveResult(INVALID, None, g)
    ELSE IF ~ttt_is_valid_move(g, move) THEN MoveResult(INVALID, None, g)
    ELSE ttt_apply_move(g, player_id, move)

----------------------------------------------------------------------------
(* games/gomoku.py.  A move is a Python str: a sequence of characters.     *)

board_size == 6        \* Gomoku(player1_id, player2_id, board_size)
WinLength == 5         \* len(positions) >= 5

UpperCase == <<"A", "B", "C", "D", "E", "F", "G", "H", "I", "J", "K", "L", "M",
               "N", "O", "P", "Q", "R", "S", "T", "U", "V", "W", "X", "Y", "Z">>
LowerCase == <<"a", "b", "c", "d", "e", "f", "g", "h", "i", "j", "k", "l", "m",
               "n", "o", "p", "q", "r", "s", "t", "u", "v", "w", "x", "y", "z">>
Digits == <<"0", "1", "2", "3", "4", "5", "6", "7", "8", "9">>
Whitespace == {" "}

IndexOf(seq, x) == CHOOSE i \in DOMAIN seq : seq[i] = x

\* str.upper, one character
upper(c) ==
    IF SeqContains(LowerCase, c) THEN UpperCase[IndexOf(LowerCase, c)] ELSE c

\* str.isalpha, one character
isalpha(c) == SeqContains(UpperCase, c) \/ SeqContains(LowerCase, c)

\* ord(c) - ord('A') of an upper-case letter
ord_minus_A(c) == IndexOf(UpperCase, c) - 1

\* str.strip
RECURSIVE lstrip(_)
lstrip(s) ==
    IF s # <<>> /\ Head(s) \in Whitespace THEN lstrip(Tail(s)) ELSE s

RECURSIVE rstrip(_)
rstrip(s) ==
    IF s # <<>> /\ s[Len(s)] \in Whitespace
    THEN rstrip(SubSeq(s, 1, Len(s) - 1)) ELSE s

strip(s) == rstrip(lstrip(s))

RECURSIVE DecimalValue(_)
DecimalValue(s) ==
    IF s = <<>> THEN 0
    ELSE 10 * DecimalValue(SubSeq(s, 1, Len(s) - 1))
         + (IndexOf(Digits, s[Len(s)]) - 1)

\* int(str): surrounding whitespace and one sign are accepted, then digits
int(s) ==
    LET body   == strip(s)
        signed == body # <<>> /\ Head(body) \in {"+", "-"}
        digits == IF signed THEN Tail(body) ELSE body
    IN  IF digits = <<>> \/ \E i \in DOMAIN digits : ~SeqContains(Digits, digits[i])
        THEN [ok |-> FALSE, value |-> 0]
        ELSE [ok |-> TRUE,
              value |-> IF signed /\ Head(body) = "-"
                        THEN 0 - DecimalValue(digits) ELSE DecimalValue(digits)]

ParseNone == [kind |-> None, row |-> 0, col |-> 0]
ParseIndexError == [kind |-> "IndexError", row |-> 0, col |-> 0]
Coords(row, col) == [kind |-> "coords", row |-> row, col |-> col]

\* Gomoku._parse_move.  move[0] of the empty string raises IndexError.
_parse_move(move) ==
    IF Len(move) < 2 THEN ParseNone
    ELSE LET m == strip([i \in DOMAIN move |-> upper(move[i])])
         IN  IF m = <<>> THEN ParseIndexError
             ELSE LET col_char == m[1]
                      row_num  == int(Tail(m))
                  IN  IF ~isalpha(col_char) \/ ord_minus_A(col_char) >= board_size
                      THEN ParseNone
                      ELSE IF ~row_num.ok THEN ParseNone
                      ELSE IF row_num.value < 1 \/ row_num.value > board_size
                      THEN ParseNone
                      ELSE Coords(row_num.value - 1, ord_minus_A(col_char))

Gomoku(player1_id, player2_id) ==
    [kind           |-> "gomoku",
     player1_id     |-> player1_id,
     player2_id     |-> player2_id,
     current_player |-> player1_id,
     moves_count    |-> 0,
     is_finished    |-> FALSE,
     winner         |-> None,
     board          |-> [i \in 0..(board_size - 1) |->
                            [j \in 0..(board_size - 1) |-> 0]],
     last_move      |-> <<>>]

InBoard(r, c) == 0 <= r /\ r < board_size /\ 0 <= c /\ c < board_size

\* Gomoku.is_valid_move
gomoku_is_valid_move(g, row, col) ==
    IF row < 0 \/ row >= board_size \/ col < 0 \/ col >= board_size THEN FALSE
    ELSE g.board[row][col] = 0

\* One while loop of _get_winning_line: the cells of player_num met from
\* <<r, c>> on in steps of <<dr, dc>>.
RECURSIVE Walk(_, _, _, _, _, _)
Walk(b, r, c, dr, dc, player_num) ==
    IF InBoard(r, c) /\ b[r][c] = player_num
    THEN <<(<<r, c>>)>> \o Walk(b, r + dr, c + dc, dr, dc, player_num)
    ELSE <<>>

Reverse(s) == [i \in DOMAIN s |-> s[Len(s) + 1 - i]]

directions == << <<0, 1>>, <<1, 0>>, <<1, 1>>, <<1, -1>> >>

\* the positions of one direction with the backward loop left out
LinePositions_ForwardOnly(b, row, col, d) ==
    LET player_num == b[row][col]
    IN  <<(<<row, col>>)>>
        \o Walk(b, row + d[1], col + d[2], d[1], d[2], player_num)

\* positions of one direction: the backward cells (inserted at the front),
\* the cell itself, the forward cells
LinePositions(b, row, col, d) ==
    LET player_num == b[row][col]
    IN  Reverse(Walk(b, row - d[1], col - d[2], 0 - d[1], 0 - d[2], player_num))
        \o <<(<<row, col>>)>>
        \o Walk(b, row + d[1], col + d[2], d[1], d[2], player_num)

\* Gomoku._get_winning_line: the first 5 positions of the first direction
\* that holds 5 or more, or None (the empty list here)
_get_winning_line(g, row, col) ==
    LET hits == {k \in DOMAIN directions :
                   Len(LinePositions(g.board, row, col, directions[k])) >= WinLength}
    IN  IF hits = {} THEN <<>>
        ELSE SubSeq(LinePositions(g.board, row, col,
                        directions[CHOOSE k \in hits : \A j \in hits : k <= j]),
                    1, 5)

\* Gomoku._check_winner
gomoku_check_winner(g, row, col) == _get_winning_line(g, row, col) # <<>>

\* Gomoku._is_board_full
gomoku_is_board_full(g) ==
    \A i \in 0..(board_size - 1) : \A j \in 0..(board_size - 1) : g.board[i][j] # 0

\* Gomoku.make_move, after its rejections
gomoku_apply_move(g, player_id, row, col) ==
    LET g1 == [g EXCEPT !.board[row][col] = player_numbers(g, player_id),
                        !.moves_count = @ + 1,
                        !.last_move = <<row, col>>]
    IN  IF gomoku_check_winner(g1, row, col)
        THEN MoveResult(WIN, player_id, base_finish_game(g1, player_id))
        ELSE IF gomoku_is_board_full(g1)
        THEN MoveResult(DRAW, None, base_finish_game(g1, None))
        ELSE MoveResult(CONTINUE, None, switch_player(g1))

RAISED == "IndexError"

\* Gomoku.make_move
gomoku_make_move(g, player_id, move) ==
    IF g.is_finished THEN MoveResult(INVALID, None, g)
    ELSE IF ~is_player_turn(g, player_id) THEN MoveResult(INVALID, None, g)
    ELSE LET coords == _parse_move(move)
         IN  IF coords.kind = "IndexError" THEN MoveResult(RAISED, None, g)
             ELSE IF coords.kind = None THEN MoveResult(INVALID, None, g)
             ELSE IF ~gomoku_is_valid_move(g, coords.row, coords.col)
             THEN MoveResult(INVALID, None, g)
             ELSE gomoku_apply_move(g, player_id, coords.row, coords.col)

\* The text of a cell, as the board is labelled: column letter, row number
RECURSIVE Decimal(_)
Decimal(n) ==
    IF n < 10 THEN <<Digits[n + 1]>>
    ELSE Decimal(n \div 10) \o <<Digits[(n % 10) + 1]>>

CellText(row, col) == <<UpperCase[col + 1]>> \o Decimal(row + 1)

----------------------------------------------------------------------------
(* Initial state: GameManager.__init__, the clock at 0, fresh boards.      *)

\* nothing outside the ChessGames plugin is running
RestIdle ==
    /\ roulette = None
    /\ threads = <<>>
    /\ saved = <<>>

Init ==
    /\ RestIdle
    /\ active_games = EmptyDict
    /\ user_games = EmptyDict
    /\ group_games = EmptyDict
    /\ bot_games = EmptyDict
    /\ waiting_players = EmptyDict
    /\ now = 0
    /\ ttt = TicTacToe("u1", "u2")
    /\ gomoku = Gomoku("u1", "u2")
    /\ engine = None
    /\ lane = 0
    /\ text = <<>>
    /\ last = [op |-> "init"]

SetReg(r) ==
    /\ active_games' = r.active_games
    /\ user_games' = r.user_games
    /\ group_games' = r.group_games
    /\ bot_games' = r.bot_games

BoardsUnchanged == UNCHANGED <<ttt, gomoku, engine, lane, text, elsewhere>>

\* the clock advances
Tick ==
    /\ now + TickStep <= MaxTime
    /\ now' = now + TickStep
    /\ last' = [op |-> "tick"]
    /\ UNCHANGED <<registry, waiting_players>>
    /\ BoardsUnchanged

----------------------------------------------------------------------------
(* Spec: the registry driven through the methods of GameManager.           *)

\* the instants the clock shows
Instants == {t \in 0..MaxTime : t % TickStep = 0}

GameIds ==
    {generate_game_id(gt, p, g, t) :
        gt \in GameTypes, p \in Players, g \in Groups, t \in Instants}

CreateGame ==
    \E gt \in GameTypes, p1 \in Players, p2 \in Players \cup {AI},
       g \in Groups, b \in Bots :
        LET res == create_game(Reg, gt, p1, p2, g, b, now)
        IN  /\ SetReg(res.reg)
            /\ last' = [op |-> "create_game", player1_id |-> p1,
                        player2_id |-> p2, raised |-> res.raised]
            /\ UNCHANGED <<waiting_players, now>>
            /\ BoardsUnchanged

RemoveGame ==
    \E id \in GameIds :
        LET res == remove_game(Reg, id)
        IN  /\ SetReg(res.reg)
            /\ last' = [op |-> "remove_game", ok |-> res.ok]
            /\ UNCHANGED <<waiting_players, now>>
            /\ BoardsUnchanged

CleanupTimeoutGames ==
    \E m \in GameTimeouts :
        LET res == cleanup_timeout_games(Reg, m, now)
        IN  /\ SetReg(res.reg)
            /\ last' = [op |-> "cleanup_timeout_games", timeout_minutes |-> m,
                        ids |-> res.ids]
            /\ UNCHANGED <<waiting_players, now>>
            /\ BoardsUnchanged

CleanupBotGames ==
    \E b \in Bots :
        LET res == cleanup_bot_games(Reg, b)
        IN  /\ SetReg(res.reg)
            /\ last' = [op |-> "cleanup_bot_games", bot_id |-> b,
                        count |-> res.count]
            /\ UNCHANGED <<waiting_players, now>>
            /\ BoardsUnchanged

CleanupAllGames ==
    LET res == cleanup_all_games(Reg)
    IN  /\ SetReg(res.reg)
        /\ last' = [op |-> "cleanup_all_games", count |-> res.count]
        /\ UNCHANGED <<waiting_players, now>>
        /\ BoardsUnchanged

Next ==
    \/ CreateGame
    \/ RemoveGame
    \/ CleanupTimeoutGames
    \/ CleanupBotGames
    \/ CleanupAllGames
    \/ Tick

Spec == Init /\ [][Next]_vars

----------------------------------------------------------------------------
(* Claims about the registry (specification Spec).                         *)

\* the sessions of the registry r that hold player p
SessionsOf(r, p) ==
    {id \in DOMAIN r.active_games : is_player_in_game(r.active_games[id], p)}

NoPlayerInTwoSessions ==
    \A p \in Players : Cardinality(SessionsOf(Reg, p)) <= 1

\* C1: a create_game naming a player (player1, or player2 when it is not
\* 'AI') who belongs to a registered session raises the already-in-game
\* error and leaves active_games, user_games, group_games and bot_games as
\* they were; hence no player is ever a member of two registered sessions.
C1_AlreadyInGame ==
    /\ []NoPlayerInTwoSessions
    /\ [][(/\ last'.op = "create_game"
           /\ \/ SessionsOf(Reg, last'.player1_id) # {}
              \/ /\ last'.player2_id # AI
                 /\ SessionsOf(Reg, last'.player2_id) # {})
          => (last'.raised /\ UNCHANGED registry)]_vars

\* C1 witness: a create_game was refused for a player who sits in a session
\* as player2, while the map of the first player named holds no entry.
C1_Witness ==
    /\ last.op = "create_game"
    /\ last.raised
    /\ last.player2_id # AI
    /\ SessionsOf(Reg, last.player2_id) # {}
    /\ SessionsOf(Reg, last.player1_id) = {}

IndexedIds ==
    {user_games[p] : p \in DOMAIN user_games}
    \cup UNION {{group_games[g][i] : i \in DOMAIN group_games[g]} : g \in DOMAIN group_games}
    \cup UNION {{bot_games[b][i] : i \in DOMAIN bot_games[b]} : b \in DOMAIN bot_games}

\* C2: no orphans in either direction.  Every session id stored in
\* user_games, group_games or bot_games is a key of active_games, and every
\* session of active_games is the user_games value of each of its non-AI
\* players and is listed under its group and under its bot.
C2_NoOrphans ==
    /\ IndexedIds \subseteq DOMAIN active_games
    /\ \A id \in DOMAIN active_games :
         LET session == active_games[id]
         IN  /\ \A p \in {session.player1_id, session.player2_id} \ {AI} :
                    p \in DOMAIN user_games /\ user_games[p] = id
             /\ session.group_id \in DOMAIN group_games
             /\ SeqContains(group_games[session.group_id], id)
             /\ session.bot_id \in DOMAIN bot_games
             /\ SeqContains(bot_games[session.bot_id], id)

\* C2 witness: a session was removed while another one stays registered in
\* the same group and under the same bot.
C2_Witness ==
    /\ last.op = "remove_game"
    /\ last.ok
    /\ \E id \in DOMAIN active_games :
         /\ Len(group_games[active_games[id].group_id]) = 1
         /\ Len(bot_games[active_games[id].bot_id]) = 1
    /\ Cardinality(DOMAIN active_games) = 1

----------------------------------------------------------------------------
(* SpecWait: the waiting queue driven through the methods of GameManager.  *)

AddWaitingPlayer ==
    \E u \in Players, g \in Groups, gt \in GameTypes, m \in WaitTimeouts :
        LET res == add_waiting_player(waiting_players, u, g, gt, m, now)
        IN  /\ waiting_players' = res.wp
            /\ last' = [op |-> "add_waiting_player", user_id |-> u,
                        group_id |-> g, game_type |-> gt,
                        timeout_minutes |-> m, result |-> res.result]
            /\ UNCHANGED <<registry, now>>
            /\ BoardsUnchanged

RemoveWaitingPlayer ==
    \E u \in Players, g \in Groups, gt \in GameTypes :
        LET res == remove_waiting_player(waiting_players, u, g, gt)
        IN  /\ waiting_players' = res.wp
            /\ last' = [op |-> "remove_waiting_player", ok |-> res.ok]
            /\ UNCHANGED <<registry, now>>
            /\ BoardsUnchanged

GetWaitingPlayers ==
    \E g \in Groups, gt \in GameTypes :
        LET res == get_waiting_players(waiting_players, g, gt, now)
        IN  /\ waiting_players' = res.wp
            /\ last' = [op |-> "get_waiting_players", users |-> res.users]
            /\ UNCHANGED <<registry, now>>
            /\ BoardsUnchanged

NextWait ==
    \/ AddWaitingPlayer
    \/ RemoveWaitingPlayer
    \/ GetWaitingPlayers
    \/ Tick

SpecWait == Init /\ [][NextWait]_vars

\* the entries of queue q that timeout_minutes has not expired at time t
Unexpired(q, timeout_minutes, t) ==
    {i \in DOMAIN q : t - q[i][2] < timeout_minutes * SecondsPerMinute}

\* how often user u is queued in q
TimesQueued(q, u) == Cardinality({i \in DOMAIN q : q[i][1] = u})

\* C3: add_waiting_player(P, group, type, timeout), called when the queue
\* holds only entries older than the timeout and none of them is P, does not
\* raise, returns no opponent, and leaves P as the only entry of the queue.
C3_ExpiredOnlyQueue ==
    [][(/\ last'.op = "add_waiting_player"
        /\ LET q == QueueOf(waiting_players, last'.group_id, last'.game_type)
           IN  /\ q # <<>>
               /\ Unexpired(q, last'.timeout_minutes, now) = {}
               /\ TimesQueued(q, last'.user_id) = 0)
       => (/\ last'.result = NoOpponent
           /\ QueueOf(waiting_players', last'.group_id, last'.game_type)
                = <<(<<last'.user_id, now>>)>>)]_vars

C6_QueuedAfterNone ==
    (last.op = "add_waiting_player" /\ last.result = NoOpponent)
    => TimesQueued(QueueOf(waiting_players, last.group_id, last.game_type),
                   last.user_id) = 1

----------------------------------------------------------------------------
(* SpecCmd: the PvP and surrender commands of handlers/command_handler.py. *)
(* A command runs to its end before the next one starts; every exception   *)
(* raised inside a command is caught by its own try/except.                *)

PvpBotId == 0          \* bot_id=0 of _create_*_pvp_game
WaitSeconds == 60      \* remaining_time = max(0, 60 - waiting_time)

NewGame(game_type, player1_id, player2_id) ==
    IF game_type = "tictactoe" THEN TicTacToe(player1_id, player2_id)
    ELSE Gomoku(player1_id, player2_id)

Outcome(r, wp, reply) == [reg |-> r, wp |-> wp, reply |-> reply]

\* _create_tictactoe_pvp_game / _create_gomoku_pvp_game
_create_pvp_game(r, wp, game_type, player1_id, player2_id, group_id, t) ==
    LET res == create_game(r, game_type, player1_id, player2_id, group_id,
                           PvpBotId, t)
    IN  IF res.raised THEN Outcome(r, wp, "create_failed")
        ELSE Outcome([res.reg EXCEPT
                         !.active_games[res.session.game_id].game_state =
                             NewGame(game_type, player1_id, player2_id)],
                     wp, "game_started")

\* Step 3 of the start and join commands: add_waiting_player, then the game.
\* The starter is player1 of the game it is matched into, the joiner player2.
MatchOrWait(r, wp, user_id, group_id, game_type, t, joining) ==
    LET res == add_waiting_player(wp, user_id, group_id, game_type, 1, t)
    IN  IF res.result.kind = "KeyError" THEN Outcome(r, res.wp, "failed")
        ELSE IF res.result.kind = "opponent"
        THEN IF joining
             THEN _create_pvp_game(r, res.wp, game_type, res.result.id,
                                   user_id, group_id, t)
             ELSE _create_pvp_game(r, res.wp, game_type, user_id,
                                   res.result.id, group_id, t)
        ELSE IF joining
        THEN Outcome(r, get_waiting_players(res.wp, group_id, game_type, t).wp,
                     IF user_id \in get_waiting_players(res.wp, group_id,
                                                        game_type, t).users
                     THEN "room_created" ELSE "join_failed")
        ELSE Outcome(r, res.wp, "room_created")

\* _start_tictactoe_pvp / _start_gomoku_pvp
_start_pvp(r, wp, user_id, group_id, game_type, t) ==
    IF get_user_game(r, user_id, group_id) # NoGame
    THEN Outcome(r, wp, "in_game")
    ELSE LET cur == get_waiting_players(wp, group_id, game_type, t)
             waiting_time ==
                 IF get_waiting_time(cur.wp, user_id, group_id, game_type, t) < 0
                 THEN 0
                 ELSE get_waiting_time(cur.wp, user_id, group_id, game_type, t)
         IN  IF user_id \in cur.users /\ WaitSeconds - waiting_time > 0
             THEN Outcome(r, cur.wp, "already_waiting")
             ELSE MatchOrWait(r, cur.wp, user_id, group_id, game_type, t, FALSE)

\* _join_tictactoe_pvp / _join_gomoku_pvp
_join_pvp(r, wp, user_id, group_id, game_type, t) ==
    IF get_user_game(r, user_id, group_id) # NoGame
    THEN Outcome(r, wp, "in_game")
    ELSE LET cur == get_waiting_players(wp, group_id, game_type, t)
             waiting_time ==
                 IF get_waiting_time(cur.wp, user_id, group_id, game_type, t) < 0
                 THEN 0
                 ELSE get_waiting_time(cur.wp, user_id, group_id, game_type, t)
         IN  IF user_id \in cur.users
             THEN IF WaitSeconds - waiting_time > 0
                  THEN Outcome(r, cur.wp, "already_waiting")
                  ELSE Outcome(r, remove_waiting_player(cur.wp, user_id,
                                       group_id, game_type).wp, "wait_expired")
             ELSE MatchOrWait(r, cur.wp, user_id, group_id, game_type, t, TRUE)

\* handle_surrender
handle_surrender(r, wp, user_id, group_id) ==
    LET game == get_user_game(r, user_id, group_id)
    IN  IF game = NoGame
        THEN LET ttt_removed == remove_waiting_player(wp, user_id, group_id,
                                                      "tictactoe")
                 gomoku_removed == remove_waiting_player(ttt_removed.wp, user_id,
                                                         group_id, "gomoku")
             IN  Outcome(r, gomoku_removed.wp,
                         IF ttt_removed.ok \/ gomoku_removed.ok
                         THEN "wait_cancelled" ELSE "nothing_to_cancel")
        ELSE LET winner_id == IF game.is_ai_game THEN AI
                              ELSE get_opponent(game, user_id)
                 finished == [r EXCEPT !.active_games[game.game_id] =
                                           finish_game(@, winner_id)]
             IN  Outcome(remove_game(finished, game.game_id).reg, wp,
                         "surrendered")

Command(op, out, user_id, group_id, game_type) ==
    /\ SetReg(out.reg)
    /\ waiting_players' = out.wp
    /\ last' = [op |-> op, user_id |-> user_id, group_id |-> group_id,
                game_type |-> game_type, reply |-> out.reply]
    /\ UNCHANGED now
    /\ BoardsUnchanged

StartTictactoePvp ==
    \E u \in Players, g \in Groups :
        Command("start_pvp", _start_pvp(Reg, waiting_players, u, g, "tictactoe", now),
                u, g, "tictactoe")

JoinTictactoePvp ==
    \E u \in Players, g \in Groups :
        Command("join_pvp", _join_pvp(Reg, waiting_players, u, g, "tictactoe", now),
                u, g, "tictactoe")

StartGomokuPvp ==
    \E u \in Players, g \in Groups :
        Command("start_pvp", _start_pvp(Reg, waiting_players, u, g, "gomoku", now),
                u, g, "gomoku")

JoinGomokuPvp ==
    \E u \in Players, g \in Groups :
        Command("join_pvp", _join_pvp(Reg, waiting_players, u, g, "gomoku", now),
                u, g, "gomoku")

HandleSurrender ==
    \E u \in Players, g \in Groups :
        Command("surrender", handle_surrender(Reg, waiting_players, u, g),
                u, g, None)

NextCmd ==
    \/ StartTictactoePvp
    \/ JoinTictactoePvp
    \/ StartGomokuPvp
    \/ JoinGomokuPvp
    \/ HandleSurrender
    \/ Tick

SpecCmd == Init /\ [][NextCmd]_vars

\* the (group, game type) queues that hold player p
QueuesOf(wp, p) ==
    {gq \in Groups \X GameTypes : TimesQueued(QueueOf(wp, gq[1], gq[2]), p) > 0}

\* C4: through the start-PvP, join-PvP and surrender commands a player is in
\* at most one waiting queue over all (group, game type) pairs, and at most
\* once inside that queue.
C4_OneQueuePerPlayer ==
    \A p \in Players :
        /\ Cardinality(QueuesOf(waiting_players, p)) <= 1
        /\ \A gq \in Groups \X GameTypes :
               TimesQueued(QueueOf(waiting_players, gq[1], gq[2]), p) <= 1

----------------------------------------------------------------------------
(* SpecGames: one board engine, chosen at the start, driven through        *)
(* make_move by both players.  A tic-tac-toe move is any of 0..10.  The    *)
(* Gomoku players pick their cells from two crossing lines of the board    *)
(* (the lane), one line each, and may also pass a few unusable strings.    *)

TttMoves == 0..10

\* the line of cells a player picks from, per lane: the first player's line
\* is one cell longer than a winning run, the second player's is exactly as
\* long, and the two lines of a lane cross
LaneCells(l, player_id) ==
    LET row   == {<<2, c>> : c \in 0..WinLength}
        col   == {<<r, 3>> : r \in 0..(WinLength - 1)}
        diag  == {<<i, i>> : i \in 0..WinLength}
        anti  == {<<i, WinLength - 1 - i>> : i \in 0..(WinLength - 1)}
        first == player_id = "u1"
    IN  IF l = 1 THEN (IF first THEN row ELSE col)
                 ELSE (IF first THEN diag ELSE anti)

\* strings naming a cell outside the board
UnusableMoves ==
    {<<UpperCase[board_size + 1], "1">>,
     <<"A">> \o Decimal(board_size + 1),
     <<"A", "0">>}

LaneMoves(l, player_id) ==
    {CellText(rc[1], rc[2]) : rc \in LaneCells(l, player_id)} \cup UnusableMoves

InitGames ==
    /\ RestIdle
    /\ active_games = EmptyDict
    /\ user_games = EmptyDict
    /\ group_games = EmptyDict
    /\ bot_games = EmptyDict
    /\ waiting_players = EmptyDict
    /\ now = 0
    /\ ttt = TicTacToe("u1", "u2")
    /\ gomoku = Gomoku("u1", "u2")
    /\ \/ engine = "tictactoe" /\ lane = 0
       \/ engine = "gomoku" /\ lane \in 1..2
    /\ text = <<>>
    /\ last = [op |-> "init"]

TttMakeMove ==
    /\ engine = "tictactoe"
    /\ \E p \in Players, m \in TttMoves :
        LET res == ttt_make_move(ttt, p, m)
        IN  /\ ttt' = res.game
            /\ last' = [op |-> "ttt_make_move", player_id |-> p, move |-> m,
                        result |-> res.result, winner |-> res.winner]
    /\ UNCHANGED <<registry, waiting_players, now, gomoku, engine, lane, text, elsewhere>>

GomokuMakeMove ==
    /\ engine = "gomoku"
    /\ \E p \in Players :
        \E mv \in LaneMoves(lane, p) :
            LET res == gomoku_make_move(gomoku, p, mv)
            IN  /\ gomoku' = res.game
                /\ last' = [op |-> "gomoku_make_move", player_id |-> p,
                            move |-> mv, result |-> res.result,
                            winner |-> res.winner]
    /\ UNCHANGED <<registry, waiting_players, now, ttt, engine, lane, text, elsewhere>>

NextGames ==
    \/ TttMakeMove
    \/ GomokuMakeMove

SpecGames == InitGames /\ [][NextGames]_vars

----------------------------------------------------------------------------
(* Claims about the board engines (specification SpecGames).               *)

\* the cell of a tic-tac-toe position 1..9, row by row
TttCell(g, m) == g.board[(m - 1) \div 3][(m - 1) % 3]

TttLegal(g, p, m) ==
    /\ ~g.is_finished
    /\ g.current_player = p
    /\ m \in 1..9
    /\ TttCell(g, m) = 0

\* C7: TicTacToe.make_move returns Continue, Win or Draw for a legal move
\* (game not finished, the mover's turn, position 1..9, cell empty); when it
\* returns Win or Draw is_finished is true, is_finished stays true from then
\* on, and every later make_move returns Invalid.
C7_TttResults ==
    /\ []((last.op = "ttt_make_move" /\ last.result \in {WIN, DRAW})
            => ttt.is_finished)
    /\ [][last'.op = "ttt_make_move" =>
            /\ TttLegal(ttt, last'.player_id, last'.move)
                 => last'.result \in {CONTINUE, WIN, DRAW}
            /\ ttt.is_finished
                 => (ttt'.is_finished /\ last'.result = INVALID)]_vars

\* C7 witness: the board filled up without a winner (Draw) and a move made
\* afterwards was answered Invalid.
C7_Witness ==
    /\ last.op = "ttt_make_move"
    /\ last.result = INVALID
    /\ ttt.is_finished
    /\ ttt.winner = None
    /\ ttt.moves_count = 9

\* the cell a column-letter/row-number string names (possibly off the board)
TextCell(mv) ==
    <<DecimalValue(Tail(mv)) - 1, IndexOf(UpperCase, Head(mv)) - 1>>

OnBoard(rc) ==
    /\ rc[1] \in 0..(board_size - 1)
    /\ rc[2] \in 0..(board_size - 1)

TttRejected(g, p, m) ==
    \/ g.is_finished
    \/ g.current_player # p
    \/ m \notin 1..9
    \/ TttCell(g, m) # 0

GomokuRejected(g, p, mv) ==
    \/ g.is_finished
    \/ g.current_player # p
    \/ ~OnBoard(TextCell(mv))
    \/ g.board[TextCell(mv)[1]][TextCell(mv)[2]] # 0

\* C8: in both engines a make_move that is rejected (game finished, not the
\* mover's turn, position out of range, cell occupied) returns Invalid and
\* leaves the grid, current_player, moves_count, is_finished and winner (and
\* Gomoku's last_move) exactly as they were.
C8_RejectedMoveChangesNothing ==
    [][/\ (last'.op = "ttt_make_move"
           /\ TttRejected(ttt, last'.player_id, last'.move))
          => (last'.result = INVALID /\ ttt' = ttt)
       /\ (last'.op = "gomoku_make_move"
           /\ GomokuRejected(gomoku, last'.player_id, last'.move))
          => (last'.result = INVALID /\ gomoku' = gomoku)]_vars

\* C8 witness: on an unfinished Gomoku game the player to move named a cell
\* that holds a stone of the opponent, and was answered Invalid.
C8_Witness ==
    /\ last.op = "gomoku_make_move"
    /\ last.result = INVALID
    /\ ~gomoku.is_finished
    /\ gomoku.current_player = last.player_id
    /\ OnBoard(TextCell(last.move))
    /\ gomoku.board[TextCell(last.move)[1]][TextCell(last.move)[2]]
         \notin {0, IF last.player_id = gomoku.player1_id THEN 1 ELSE 2}

Lines == {<<0, 1>>, <<1, 0>>, <<1, 1>>, <<1, -1>>}

\* cell rc lies on n cells in a row of mark, along one of the four lines
OnRunOf(n, b, rc, mark) ==
    \E d \in Lines : \E s \in 0..(n - 1) :
        \A i \in 0..(n - 1) :
            LET cell == <<rc[1] + (i - s) * d[1], rc[2] + (i - s) * d[2]>>
            IN  OnBoard(cell) /\ b[cell[1]][cell[2]] = mark

MarkOf(g, p) == IF p = g.player1_id THEN 1 ELSE 2

\* C10: an accepted Gomoku move returns Win exactly when the cell just
\* played lies on 5 or more cells in a row of the mover's mark, horizontally,
\* vertically or along either diagonal; the winner is then the mover.  A
\* move that completes a run of 4 and no more returns Continue.
C10_WinIffFiveInARow ==
    (last.op = "gomoku_make_move" /\ last.result \in {CONTINUE, WIN, DRAW})
    => LET five == OnRunOf(WinLength, gomoku.board, TextCell(last.move),
                           MarkOf(gomoku, last.player_id))
           four == OnRunOf(WinLength - 1, gomoku.board, TextCell(last.move),
                           MarkOf(gomoku, last.player_id))
       IN  /\ (last.result = WIN) <=> five
           /\ last.result = WIN
                => (last.winner = last.player_id
                    /\ gomoku.winner = last.player_id)
           /\ (four /\ ~five) => last.result = CONTINUE

\* C10 witness: the second player won along the falling diagonal by playing
\* its middle cell last.
C10_Witness ==
    /\ last.op = "gomoku_make_move"
    /\ last.result = WIN
    /\ last.player_id = "u2"
    /\ lane = 2
    /\ TextCell(last.move) = <<2, 2>>

----------------------------------------------------------------------------
(* SpecText: Gomoku.make_move called by the player to move with one and    *)
(* the same string, any string over a small alphabet, a few times over.    *)

MaxTextLen == 3
MaxTextCalls == 2

\* letters on and off the board in both cases, digits on and off the board,
\* a blank and a sign
TextChars ==
    {"A", "a", UpperCase[board_size], UpperCase[board_size + 1],
     "0", "1", Digits[board_size + 1], Digits[board_size + 2], " ", "-"}

Texts == UNION {[1..n -> TextChars] : n \in 0..MaxTextLen}

InitText ==
    /\ RestIdle
    /\ active_games = EmptyDict
    /\ user_games = EmptyDict
    /\ group_games = EmptyDict
    /\ bot_games = EmptyDict
    /\ waiting_players = EmptyDict
    /\ now = 0
    /\ ttt = TicTacToe("u1", "u2")
    /\ gomoku = Gomoku("u1", "u2")
    /\ engine = "gomoku"
    /\ lane = 0
    /\ text \in Texts
    /\ last = [op |-> "init"]

GomokuMakeMoveText ==
    /\ gomoku.moves_count < MaxTextCalls
    /\ ~gomoku.is_finished
    /\ LET res == gomoku_make_move(gomoku, gomoku.current_player, text)
       IN  /\ gomoku' = res.game
           /\ last' = [op |-> "gomoku_make_move",
                       player_id |-> gomoku.current_player,
                       move |-> text, result |-> res.result,
                       winner |-> res.winner]
    /\ UNCHANGED <<registry, waiting_players, now, ttt, engine, lane, text, elsewhere>>

NextText ==
    \/ GomokuMakeMoveText

SpecText == InitText /\ [][NextText]_vars

\* a column letter within the board width followed by a decimal row number
\* within the board height, and nothing else
WellFormed(mv) ==
    /\ Len(mv) >= 2
    /\ \E k \in 1..board_size : Head(mv) \in {UpperCase[k], LowerCase[k]}
    /\ \A i \in 2..Len(mv) : SeqContains(Digits, mv[i])
    /\ DecimalValue(Tail(mv)) \in 1..board_size

\* C9: Gomoku.make_move, called by the player to move on an unfinished
\* game, returns a result for every string and never raises; a string that
\* is not one column letter within the board width followed by a decimal row
\* number within the board height (a one-character string, a string of
\* blanks, a string padded with blanks) is answered Invalid.
C9_EveryStringAnswered ==
    last.op = "gomoku_make_move"
    => /\ last.result # RAISED
       /\ ~WellFormed(last.move) => last.result = INVALID

----------------------------------------------------------------------------
(* The engine of the RussianRoulette plugin (game.py).  random.randint,    *)
(* random.shuffle and random.sample are choices of the caller of the       *)
(* operators below: the bullets and the two hands of a new round arrive as *)
(* the argument draw.                                                      *)

bullet_count == 2          \* bullets of a round
item_count == 3            \* items dealt to each side
MaxRounds == 2             \* rounds a run is followed through

PlayerName == "u1"
AiName == "ai"

ITEMS == {"magnifier", "cigarette", "saw", "handcuffs", "beer", "medicine",
          "adrenaline", "inverter"}

\* Player
Player(name, is_ai) ==
    [name |-> name, hp |-> 3, max_hp |-> 3, items |-> <<>>, is_ai |-> is_ai]

is_alive(p) == p.hp > 0

\* a take_damage that takes one point whatever the damage
take_damage_OnePoint(p, damage) ==
    [p EXCEPT !.hp = IF p.hp - 1 > 0 THEN p.hp - 1 ELSE 0]

\* Player.take_damage: the player afterwards
take_damage(p, damage) ==
    [p EXCEPT !.hp = IF p.hp - damage > 0 THEN p.hp - damage ELSE 0]

\* a heal that adds the amount without looking at max_hp
heal_Uncapped(p, amount) == [p EXCEPT !.hp = @ + amount]

\* Player.heal: the player afterwards
heal(p, amount) ==
    [p EXCEPT !.hp = IF p.hp + amount < p.max_hp THEN p.hp + amount ELSE p.max_hp]

\* GameState.is_current_bullet_real
is_current_bullet_real(g) ==
    IF g.current_bullet >= Len(g.bullets) THEN FALSE
    ELSE g.bullets[g.current_bullet + 1]

\* GameState.advance_bullet
advance_bullet(g) == [g EXCEPT !.current_bullet = @ + 1]

\* the outcomes of random.randint + random.shuffle in _start_new_round:
\* at least one real and one blank bullet, in any order
BulletDraws ==
    {b \in [1..bullet_count -> BOOLEAN] :
        /\ \E i \in 1..bullet_count : b[i]
        /\ \E i \in 1..bullet_count : ~b[i]}

\* some outcomes of random.sample(available_items, item_count)
HandDraws ==
    {h \in {<<"saw", "beer", "cigarette">>, <<"beer", "handcuffs", "medicine">>} :
        Len(h) = item_count /\ \A i \in DOMAIN h : h[i] \in ITEMS}

Draws == [bullets : BulletDraws, player_items : HandDraws, ai_items : HandDraws]

\* RussianRouletteGame._start_new_round with _distribute_items
_start_new_round(g, draw) ==
    [g EXCEPT !.bullets = draw.bullets,
              !.current_bullet = 0,
              !.damage_multiplier = 1,
              !.player.items = draw.player_items,
              !.ai.items = draw.ai_items]

\* RussianRouletteGame.__init__
RussianRouletteGame(draw) ==
    _start_new_round(
        [player |-> Player(PlayerName, FALSE),
         ai |-> Player(AiName, TRUE),
         bullets |-> <<>>,
         current_bullet |-> 0,
         current_player |-> 0,
         round_num |-> 1,
         damage_multiplier |-> 1,
         game_over |-> FALSE,
         winner |-> None,
         skip_next_turn |-> FALSE],
        draw)

\* which of the two Player objects: get_current_player / get_opponent
CurrentSide(g) == IF g.current_player = 0 THEN "player" ELSE "ai"
OpponentSide(g) == IF g.current_player = 0 THEN "ai" ELSE "player"

\* RussianRouletteGame.switch_turn
switch_turn(g) == [g EXCEPT !.current_player = 1 - @]

\* shoot without its closing new-round check
shoot_body(g, target_self) ==
    LET shooter == CurrentSide(g)
        target  == IF target_self THEN shooter ELSE OpponentSide(g)
        is_real == is_current_bullet_real(g)
        damage  == IF is_real THEN g.damage_multiplier ELSE 0
        hit     == take_damage(g[target], damage)
        died    == is_real /\ ~is_alive(hit)
        g1 == IF is_real THEN [g EXCEPT ![target] = hit] ELSE g
        g2 == IF died
              THEN [g1 EXCEPT !.game_over = TRUE,
                              !.winner = IF target = shooter
                                         THEN g[OpponentSide(g)].name
                                         ELSE g[shooter].name]
              ELSE g1
        g3 == [advance_bullet(g2) EXCEPT !.damage_multiplier = 1]
    IN  [game |-> g3,
         result |-> [is_real |-> is_real, damage |-> damage,
                     target |-> target, target_died |-> died,
                     continue_turn |-> ~is_real /\ target_self]]

\* the closing check of shoot: a new round when the bullets ran out
NeedsNewRound(g) == g.current_bullet >= Len(g.bullets) /\ ~g.game_over

\* RussianRouletteGame.shoot
shoot(g, target_self, draw) ==
    LET s == shoot_body(g, target_self)
    IN  IF NeedsNewRound(s.game)
        THEN [s EXCEPT !.game = _start_new_round(
                                    [s.game EXCEPT !.round_num = @ + 1], draw)]
        ELSE s

\* the effect of one item on the game, before the item is popped
item_effect(g, item_key) ==
    LET side == CurrentSide(g)
    IN  CASE item_key = "cigarette" -> [g EXCEPT ![side] = heal(g[side], 1)]
          [] item_key = "medicine"  -> [g EXCEPT ![side] = heal(g[side], 2)]
          [] item_key = "saw"       -> [g EXCEPT !.damage_multiplier = 2]
          [] item_key = "beer"      ->
                IF g.current_bullet < Len(g.bullets) THEN advance_bullet(g) ELSE g
          [] item_key = "handcuffs" -> [g EXCEPT !.skip_next_turn = TRUE]
          [] OTHER                  -> g

\* RussianRouletteGame.use_item (item_index counts from 0)
use_item(g, item_index) ==
    LET side  == CurrentSide(g)
        items == g[side].items
    IN  IF item_index < 0 \/ item_index >= Len(items)
        THEN [game |-> g, result |-> [success |-> FALSE, item |-> None]]
        ELSE LET item_key == items[item_index + 1]
                 g1 == item_effect(g, item_key)
             IN  [game |-> [g1 EXCEPT ![side].items = SeqPop(g1[side].items, item_index + 1)],
                  result |-> [success |-> TRUE, item |-> item_key]]

----------------------------------------------------------------------------
(* SpecRoulette: one roulette game driven through shoot, use_item and      *)
(* switch_turn while it is not over.                                       *)

InitRoulette ==
    /\ active_games = EmptyDict
    /\ user_games = EmptyDict
    /\ group_games = EmptyDict
    /\ bot_games = EmptyDict
    /\ waiting_players = EmptyDict
    /\ now = 0
    /\ ttt = TicTacToe("u1", "u2")
    /\ gomoku = Gomoku("u1", "u2")
    /\ engine = "roulette"
    /\ lane = 0
    /\ text = <<>>
    /\ \E draw \in Draws : roulette = RussianRouletteGame(draw)
    /\ threads = <<>>
    /\ saved = <<>>
    /\ last = [op |-> "init"]

\* the first item of the hand, and an index past every hand
ItemIndexes == {0, item_count}

ChessUnchanged ==
    UNCHANGED <<registry, waiting_players, now, ttt, gomoku, engine, lane, text,
                threads, saved>>

\* the random draws a shot consumes: those of a new round, if it starts one
DrawsOf(g, target_self) ==
    IF NeedsNewRound(shoot_body(g, target_self).game)
    THEN Draws
    ELSE {CHOOSE draw \in Draws : TRUE}

Shoot ==
    /\ ~roulette.game_over
    /\ \E target_self \in BOOLEAN :
       \E draw \in DrawsOf(roulette, target_self) :
        LET res == shoot(roulette, target_self, draw)
        IN  /\ res.game.round_num <= MaxRounds
            /\ roulette' = res.game
            /\ last' = [op |-> "shoot", target_self |-> target_self,
                        result |-> res.result]
    /\ ChessUnchanged

UseItem ==
    /\ ~roulette.game_over
    /\ \E item_index \in ItemIndexes :
        LET res == use_item(roulette, item_index)
        IN  /\ roulette' = res.game
            /\ last' = [op |-> "use_item", item_index |-> item_index,
                        result |-> res.result]
    /\ ChessUnchanged

SwitchTurn ==
    /\ ~roulette.game_over
    /\ roulette' = switch_turn(roulette)
    /\ last' = [op |-> "switch_turn"]
    /\ ChessUnchanged

NextRoulette ==
    \/ Shoot
    \/ UseItem
    \/ SwitchTurn

SpecRoulette == InitRoulette /\ [][NextRoulette]_vars

----------------------------------------------------------------------------
(* Claims about the roulette engine (specification SpecRoulette).          *)

\* the operation just done moved the cursor off its bullet
CursorMoved ==
    \/ last'.op = "shoot"
    \/ last'.op = "use_item" /\ last'.result.item = "beer"

\* C11: whenever the bullet cursor reaches the end of the bullet sequence
\* while the game is not over, by shoot or by the beer item, one new round
\* starts within that operation (round counter +1, cursor back to 0, fresh
\* bullets and items); so between operations of a game that is not over the
\* cursor is strictly below the sequence length.
C11_NewRoundWhenExhausted ==
    /\ [](roulette.game_over = FALSE
            => roulette.current_bullet < Len(roulette.bullets))
    /\ [][(/\ CursorMoved
           /\ roulette.current_bullet + 1 = Len(roulette.bullets)
           /\ ~roulette'.game_over)
          => (/\ roulette'.round_num = roulette.round_num + 1
              /\ roulette'.current_bullet = 0
              /\ roulette'.bullets \in BulletDraws
              /\ roulette'.player.items \in HandDraws
              /\ roulette'.ai.items \in HandDraws)]_vars

Min(a, b) == IF a < b THEN a ELSE b

\* C12: with the game not over, shoot(target_self) on a blank bullet changes
\* neither hp and reports continue_turn exactly when target_self; on a real
\* bullet it lowers only the target's hp, by min(hp, 1), or by min(hp, 2)
\* when the saw multiplier is armed, reports continue_turn false, and sets
\* game_over exactly when the target's hp reaches 0.
C12_ShootEffect ==
    [][(/\ last'.op = "shoot"
        /\ ~roulette.game_over
        /\ roulette.current_bullet < Len(roulette.bullets))
       => LET real   == roulette.bullets[roulette.current_bullet + 1]
              own    == IF roulette.current_player = 0 THEN "player" ELSE "ai"
              other  == IF roulette.current_player = 0 THEN "ai" ELSE "player"
              target == IF last'.target_self THEN own ELSE other
              spared == IF last'.target_self THEN other ELSE own
              armed  == roulette.damage_multiplier = 2
              loss   == Min(roulette[target].hp, IF armed THEN 2 ELSE 1)
          IN  IF ~real
              THEN /\ roulette'.player.hp = roulette.player.hp
                   /\ roulette'.ai.hp = roulette.ai.hp
                   /\ last'.result.continue_turn = last'.target_self
                   /\ ~roulette'.game_over
              ELSE /\ roulette'[target].hp = roulette[target].hp - loss
                   /\ roulette'[spared].hp = roulette[spared].hp
                   /\ ~last'.result.continue_turn
                   /\ roulette'.game_over <=> (roulette'[target].hp = 0)]_vars

\* C12 witness: a real bullet fired with the saw armed took the shooter's
\* own last points and ended the game.
C12_Witness ==
    /\ last.op = "shoot"
    /\ last.target_self
    /\ last.result.is_real
    /\ last.result.damage = 2
    /\ roulette.game_over
    /\ roulette[last.result.target].hp = 0

----------------------------------------------------------------------------
(* systems/ai.py.  An Optional value is a list of at most one element:     *)
(* <<>> is None, <<x>> is x.  An operator that ends in random.choice       *)
(* returns the set of the values the call can return.                      *)

Difficulties == {"easy", "medium", "hard"}

\* BaseGame.get_opponent
game_get_opponent(g, player_id) ==
    IF player_id = g.player1_id THEN g.player2_id
    ELSE IF player_id = g.player2_id THEN g.player1_id
    ELSE None

\* TicTacToe.clone / Gomoku.clone: a copy sharing no row with the original
clone(g) == g

SeqToSet(s) == {s[i] : i \in DOMAIN s}

\* the loop "for x in s: if Test(x): return x": <<x>>, or <<>> when the
\* loop runs to its end
FirstOf(s, Test(_)) ==
    IF \E i \in DOMAIN s : Test(s[i])
    THEN <<s[CHOOSE i \in DOMAIN s : Test(s[i]) /\ \A j \in 1..(i - 1) : ~Test(s[j])]>>
    ELSE <<>>

\* random.choice(s), as Optional values
Choice(s) == {<<s[i]>> : i \in DOMAIN s}

\* the cells in ascending order, no preference
priority_moves_Ascending == <<1, 2, 3, 4, 5, 6, 7, 8, 9>>

priority_moves == <<5, 1, 3, 7, 9, 2, 4, 6, 8>>

\* the medium branch of _get_tictactoe_move
ttt_medium_move(game, available_moves) ==
    LET ai_player == AI
        opponent  == game_get_opponent(game, ai_player)
        Wins(move) == ttt_make_move(clone(game), ai_player, move).result = WIN
        Blocks(move) ==
            ttt_make_move([clone(game) EXCEPT !.current_player = opponent],
                          opponent, move).result = WIN
        Free(move) == SeqContains(available_moves, move)
        winning   == FirstOf(available_moves, Wins)
        blocking  == FirstOf(available_moves, Blocks)
        preferred == FirstOf(priority_moves, Free)
    IN  IF winning # <<>> THEN {winning}
        ELSE IF blocking # <<>> THEN {blocking}
        ELSE IF preferred # <<>> THEN {preferred}
        ELSE Choice(available_moves)

\* AISystem._evaluate_tictactoe
_evaluate_tictactoe(game, ai_player) ==
    IF game.is_finished
    THEN IF game.winner = ai_player THEN 10
         ELSE IF game.winner = None THEN 0
         ELSE -10
    ELSE 0

\* the index of the last maximum (minimum) of a list of scores
FirstBest_Last(scores, maximize) ==
    CHOOSE i \in DOMAIN scores :
        /\ \A j \in DOMAIN scores :
              IF maximize THEN scores[j] <= scores[i] ELSE scores[j] >= scores[i]
        /\ \A j \in (i + 1)..Len(scores) : scores[j] # scores[i]

\* the index of the first strict maximum (minimum) of a list of scores:
\* the loops of _minimax_tictactoe keep the first best score they meet
FirstBest(scores, maximize) ==
    CHOOSE i \in DOMAIN scores :
        /\ \A j \in DOMAIN scores :
              IF maximize THEN scores[j] <= scores[i] ELSE scores[j] >= scores[i]
        /\ \A j \in 1..(i - 1) : scores[j] # scores[i]

\* AISystem._minimax_tictactoe: [score, move].  A board without an empty
\* cell is finished, so each loop meets at least one move.  MoveScores is
\* the body of either for loop: the scores of the moves, in order.
RECURSIVE _minimax_tictactoe(_, _, _)
RECURSIVE MoveScores(_, _, _, _)
MoveScores(game, player, depth, moves) ==
    IF moves = <<>> THEN <<>>
    ELSE <<_minimax_tictactoe(
                ttt_make_move(clone(game), player, Head(moves)).game,
                game_get_opponent(game, player),
                depth - 1).score>>
         \o MoveScores(game, player, depth, Tail(moves))

_minimax_tictactoe(game, player, depth) ==
    IF game.is_finished \/ depth = 0
    THEN [score |-> _evaluate_tictactoe(game, AI), move |-> <<>>]
    ELSE LET available_moves == ttt_get_available_moves(game)
             scores == MoveScores(game, player, depth, available_moves)
             best == FirstBest(scores, player = AI)
         IN  [score |-> scores[best], move |-> <<available_moves[best]>>]

\* AISystem._get_tictactoe_move
_get_tictactoe_move(game, difficulty) ==
    LET available_moves == ttt_get_available_moves(game)
    IN  IF available_moves = <<>> THEN {<<>>}
        ELSE IF difficulty = "easy" THEN Choice(available_moves)
        ELSE IF difficulty = "medium" THEN ttt_medium_move(game, available_moves)
        ELSE IF difficulty = "hard" THEN {_minimax_tictactoe(game, AI, 9).move}
        ELSE Choice(available_moves)

\* Gomoku.get_available_moves, in its order of enumeration
gomoku_get_available_moves(g) ==
    SelectSeq([k \in 1..(board_size * board_size) |->
                  <<(k - 1) \div board_size, (k - 1) % board_size>>],
              LAMBDA rc : g.board[rc[1]][rc[2]] = 0)

\* the offsets around last_move, in the order of the two for loops
Neighbours ==
    << <<-1, -1>>, <<-1, 0>>, <<-1, 1>>, <<0, -1>>, <<0, 1>>,
       <<1, -1>>, <<1, 0>>, <<1, 1>> >>

\* a strategy that always answers with the centre of the board
_get_strategic_gomoku_move_Centre(game, available_moves) ==
    << <<board_size \div 2, board_size \div 2>> >>

\* AISystem._get_strategic_gomoku_move: <<cell>>, or <<>>
_get_strategic_gomoku_move(game, available_moves) ==
    LET ai_player == AI
        opponent  == game_get_opponent(game, ai_player)
        Completes(rc, player_id) ==
            gomoku_check_winner(
                [clone(game) EXCEPT !.board[rc[1]][rc[2]] =
                                        player_numbers(game, player_id)],
                rc[1], rc[2])
        Wins(rc) == Completes(rc, ai_player)
        Blocks(rc) == Completes(rc, opponent)
        center == board_size \div 2
        Near(d) == SeqContains(available_moves,
                               <<game.last_move[1] + d[1], game.last_move[2] + d[2]>>)
        winning  == FirstOf(available_moves, Wins)
        blocking == FirstOf(available_moves, Blocks)
        nearby   == FirstOf(Neighbours, Near)
    IN  IF winning # <<>> THEN winning
        ELSE IF blocking # <<>> THEN blocking
        ELSE IF game.moves_count = 0 THEN << <<center, center>> >>
        ELSE IF game.last_move # <<>> /\ nearby # <<>>
        THEN << <<game.last_move[1] + nearby[1][1],
                  game.last_move[2] + nearby[1][2]>> >>
        ELSE <<>>

\* AISystem._get_advanced_gomoku_move
_get_advanced_gomoku_move(game, available_moves) ==
    _get_strategic_gomoku_move(game, available_moves)

\* f"{chr(65 + col)}{row + 1}" of each of a set of optional cells
CellTexts(cells) == {<<CellText(c[1][1], c[1][2])>> : c \in cells}

\* AISystem._get_gomoku_move
_get_gomoku_move(game, difficulty) ==
    LET available_moves == gomoku_get_available_moves(game)
        Planned(move) == IF move # <<>> THEN CellTexts({move})
                         ELSE CellTexts(Choice(available_moves))
    IN  IF available_moves = <<>> THEN {<<>>}
        ELSE IF difficulty = "easy" THEN CellTexts(Choice(available_moves))
        ELSE IF difficulty = "medium"
        THEN Planned(_get_strategic_gomoku_move(game, available_moves))
        ELSE IF difficulty = "hard"
        THEN Planned(_get_advanced_gomoku_move(game, available_moves))
        ELSE CellTexts(Choice(available_moves))

\* AISystem.get_ai_move: the values the call can return
get_ai_move(game, difficulty) ==
    IF game.kind = "tictactoe" THEN _get_tictactoe_move(game, difficulty)
    ELSE IF game.kind = "gomoku" THEN _get_gomoku_move(game, difficulty)
    ELSE {<<>>}

----------------------------------------------------------------------------
(* What get_ai_move leaves of the game it is given.  A game object is made *)
(* of the object itself and of the row lists of its board; a write to a    *)
(* test game reaches the caller's game through every object they share.    *)

\* the objects of the caller's game
LiveObjects == [object |-> "live", rows |-> "live"]

\* a clone that copies the board list but not its rows
clone_objects_SharedRows(objects) == [object |-> "copy", rows |-> objects.rows]

\* TicTacToe.clone / Gomoku.clone: a new game object whose board is
\* [row[:] for row in self.board], a new list for every row
clone_objects(objects) == [object |-> "copy", rows |-> "copy"]

\* the caller's game once test_game, an object made of objects, has been
\* written to
WriteThrough(live, objects, test_game) ==
    IF objects.object = "live" THEN test_game
    ELSE IF objects.rows = "live" THEN [live EXCEPT !.board = test_game.board]
    ELSE live

\* the caller's game once each of test_games, in turn an object made of
\* objects and a copy of the game as it was, has been written to: a cell of a
\* shared row holds what the last test game that changed it has put there
WriteAll(live, objects, test_games) ==
    LET Writers(i, j) == {k \in DOMAIN test_games :
                            test_games[k].board[i][j] # live.board[i][j]}
        Latest(S) == CHOOSE k \in S : \A l \in S : l <= k
    IN  IF test_games = <<>> THEN live
        ELSE IF objects.object = "live" THEN test_games[Len(test_games)]
        ELSE IF objects.rows = "live"
        THEN [live EXCEPT !.board =
                [i \in DOMAIN live.board |->
                    [j \in DOMAIN live.board[i] |->
                        IF Writers(i, j) = {} THEN live.board[i][j]
                        ELSE test_games[Latest(Writers(i, j))].board[i][j]]]]
        ELSE live

\* the part of a loop "for x in s: ... if Test(x): return x" that is run:
\* s up to its first element passing the test
RunOf(s, Test(_)) ==
    IF \E i \in DOMAIN s : Test(s[i])
    THEN SubSeq(s, 1, CHOOSE i \in DOMAIN s :
                          Test(s[i]) /\ \A j \in 1..(i - 1) : ~Test(s[j]))
    ELSE s

\* the test games of the medium branch of _get_tictactoe_move, as its two
\* loops leave them
ttt_medium_tests(game, available_moves) ==
    LET ai_player == AI
        opponent  == game_get_opponent(game, ai_player)
        Try(move) == ttt_make_move(clone(game), ai_player, move)
        Block(move) ==
            ttt_make_move([clone(game) EXCEPT !.current_player = opponent],
                          opponent, move)
        Wins(move) == Try(move).result = WIN
        Blocks(move) == Block(move).result = WIN
        first  == RunOf(available_moves, Wins)
        second == RunOf(available_moves, Blocks)
    IN  [i \in DOMAIN first |-> Try(first[i]).game]
        \o (IF \E i \in DOMAIN available_moves : Wins(available_moves[i])
            THEN <<>>
            ELSE [i \in DOMAIN second |-> Block(second[i]).game])

\* the test games of _get_strategic_gomoku_move, as its two loops leave them
gomoku_strategic_tests(game, available_moves) ==
    LET ai_player == AI
        opponent  == game_get_opponent(game, ai_player)
        Put(rc, player_id) ==
            [clone(game) EXCEPT !.board[rc[1]][rc[2]] =
                                    player_numbers(game, player_id)]
        Wins(rc) == gomoku_check_winner(Put(rc, ai_player), rc[1], rc[2])
        Blocks(rc) == gomoku_check_winner(Put(rc, opponent), rc[1], rc[2])
        first  == RunOf(available_moves, Wins)
        second == RunOf(available_moves, Blocks)
    IN  [i \in DOMAIN first |-> Put(first[i], ai_player)]
        \o (IF \E i \in DOMAIN available_moves : Wins(available_moves[i])
            THEN <<>>
            ELSE [i \in DOMAIN second |-> Put(second[i], opponent)])

\* the caller's game after _minimax_tictactoe has searched below game, an
\* object made of objects.  When the clone of such an object is made of the
\* same kind of objects and shares nothing with the caller's game, so is every
\* clone further down, and nothing below is written through.
RECURSIVE minimax_writes(_, _, _, _, _)
RECURSIVE minimax_loop(_, _, _, _, _, _)
minimax_loop(live, objects, game, player, depth, moves) ==
    IF moves = <<>> THEN live
    ELSE LET test_game == ttt_make_move(clone(game), player, Head(moves)).game
             written == WriteThrough(live, objects, test_game)
             below == minimax_writes(written, objects, test_game,
                                     game_get_opponent(game, player), depth - 1)
         IN  minimax_loop(below, objects, game, player, depth, Tail(moves))

minimax_writes(live, objects, game, player, depth) ==
    IF game.is_finished \/ depth = 0 THEN live
    ELSE LET test_objects == clone_objects(objects)
         IN  IF /\ test_objects = objects
                /\ test_objects.object # "live"
                /\ test_objects.rows # "live"
             THEN live
             ELSE minimax_loop(live, test_objects, game, player, depth,
                               ttt_get_available_moves(game))

\* the game as get_ai_move(game, difficulty) leaves it
game_after_ai_move(game, difficulty) ==
    LET test_objects == clone_objects(LiveObjects)
    IN  IF game.kind = "tictactoe"
        THEN LET available_moves == ttt_get_available_moves(game)
             IN  IF available_moves = <<>> THEN game
                 ELSE IF difficulty = "medium"
                 THEN WriteAll(game, test_objects,
                               ttt_medium_tests(game, available_moves))
                 ELSE IF difficulty = "hard"
                 THEN minimax_writes(game, LiveObjects, game, AI, 9)
                 ELSE game
        ELSE LET available_moves == gomoku_get_available_moves(game)
             IN  IF available_moves = <<>> THEN game
                 ELSE IF difficulty \in {"medium", "hard"}
                 THEN WriteAll(game, test_objects,
                               gomoku_strategic_tests(game, available_moves))
                 ELSE game

----------------------------------------------------------------------------
(* SpecAi: a board of one engine, the user "u1" against 'AI'.  The user    *)
(* plays any accepted move; the AI's reply is get_ai_move at any           *)
(* difficulty followed by make_move('AI', move).                           *)

MaxPlies == 10             \* moves a Gomoku game is followed through

\* the cells the user plays on the Gomoku board
UserCells == LaneCells(1, "u1")

\* the cells random.choice is followed to on the Gomoku board
RandomCells == LaneCells(1, "u2")

InitAi ==
    /\ RestIdle
    /\ active_games = EmptyDict
    /\ user_games = EmptyDict
    /\ group_games = EmptyDict
    /\ bot_games = EmptyDict
    /\ waiting_players = EmptyDict
    /\ now = 0
    /\ ttt = TicTacToe("u1", AI)
    /\ gomoku = Gomoku("u1", AI)
    /\ engine \in {"tictactoe", "gomoku"}
    /\ lane = 0
    /\ text = <<>>
    /\ last = [op |-> "init"]

UserTttMove ==
    /\ engine = "tictactoe"
    /\ \E m \in 1..9 :
        LET res == ttt_make_move(ttt, "u1", m)
        IN  /\ res.result # INVALID
            /\ ttt' = res.game
            /\ last' = [op |-> "make_move", result |-> res.result]
    /\ UNCHANGED <<registry, waiting_players, now, gomoku, engine, lane, text, elsewhere>>

UserGomokuMove ==
    /\ engine = "gomoku"
    /\ gomoku.moves_count < MaxPlies
    /\ \E rc \in UserCells :
        LET res == gomoku_make_move(gomoku, "u1", CellText(rc[1], rc[2]))
        IN  /\ res.result # INVALID
            /\ gomoku' = res.game
            /\ last' = [op |-> "make_move", result |-> res.result]
    /\ UNCHANGED <<registry, waiting_players, now, ttt, engine, lane, text, elsewhere>>

\* the reply played for the optional move mv on the board g
AiReply(g, mv) ==
    IF mv = <<>> THEN MoveResult(None, None, g)
    ELSE IF g.kind = "tictactoe" THEN ttt_make_move(g, AI, mv[1])
    ELSE gomoku_make_move(g, AI, mv[1])

AiTttMove ==
    /\ engine = "tictactoe"
    /\ ~ttt.is_finished
    /\ ttt.current_player = AI
    /\ \E d \in Difficulties :
       \E mv \in get_ai_move(ttt, d) :
        LET after == game_after_ai_move(ttt, d)
            res == AiReply(after, mv)
        IN  /\ ttt' = res.game
            /\ last' = [op |-> "get_ai_move", difficulty |-> d, move |-> mv,
                        game |-> after, result |-> res.result]
    /\ UNCHANGED <<registry, waiting_players, now, gomoku, engine, lane, text, elsewhere>>

AiGomokuMove ==
    /\ engine = "gomoku"
    /\ ~gomoku.is_finished
    /\ gomoku.current_player = AI
    /\ gomoku.moves_count < MaxPlies
    /\ \E d \in Difficulties :
       LET moves == get_ai_move(gomoku, d)
       IN  \E mv \in moves :
        LET after == game_after_ai_move(gomoku, d)
            res == AiReply(after, mv)
        IN  /\ \/ Cardinality(moves) = 1
               \/ \E rc \in RandomCells : mv = <<CellText(rc[1], rc[2])>>
            /\ gomoku' = res.game
            /\ last' = [op |-> "get_ai_move", difficulty |-> d, move |-> mv,
                        game |-> after, result |-> res.result]
    /\ UNCHANGED <<registry, waiting_players, now, ttt, engine, lane, text, elsewhere>>

NextAi ==
    \/ UserTttMove
    \/ UserGomokuMove
    \/ AiTttMove
    \/ AiGomokuMove

SpecAi == InitAi /\ [][NextAi]_vars

----------------------------------------------------------------------------
(* Claims about the AI policies (specification SpecAi).                    *)

\* the eight lines of the tic-tac-toe board, as sets of positions 1..9
TttLines ==
    {{1, 2, 3}, {4, 5, 6}, {7, 8, 9}, {1, 4, 7}, {2, 5, 8}, {3, 6, 9},
     {1, 5, 9}, {3, 5, 7}}

\* the empty cells that complete a line of mark on the board of g
WinningCells(g, mark) ==
    {m \in 1..9 :
        /\ TttCell(g, m) = 0
        /\ \E line \in TttLines :
              m \in line /\ \A k \in line \ {m} : TttCell(g, k) = mark}

Preference == <<5, 1, 3, 7, 9, 2, 4, 6, 8>>

\* the first empty cell of g in the order of Preference
PreferredCell(g) ==
    Preference[CHOOSE i \in 1..9 :
                  /\ TttCell(g, Preference[i]) = 0
                  /\ \A j \in 1..(i - 1) : TttCell(g, Preference[j]) # 0]

\* C13: on every unfinished tic-tac-toe position with 'AI' (player 2) to
\* move, the medium policy returns a cell that wins at once for AI if there
\* is one; otherwise a cell with which the opponent would win at once, if
\* there is one; otherwise the first empty cell in the order
\* 5,1,3,7,9,2,4,6,8.
C13_MediumPolicy ==
    [][(/\ last'.op = "get_ai_move"
        /\ engine = "tictactoe"
        /\ last'.difficulty = "medium")
       => /\ last'.move # <<>>
          /\ IF WinningCells(ttt, 2) # {}
             THEN last'.move[1] \in WinningCells(ttt, 2)
             ELSE IF WinningCells(ttt, 1) # {}
             THEN last'.move[1] \in WinningCells(ttt, 1)
             ELSE last'.move[1] = PreferredCell(ttt)]_vars

\* C13 witness: X holds cells 1 and 2, AI had no winning cell, and the
\* medium policy answered 3.
C13_Witness ==
    /\ engine = "tictactoe"
    /\ last.op = "get_ai_move"
    /\ last.difficulty = "medium"
    /\ last.move = <<3>>
    /\ TttCell(ttt, 1) = 1
    /\ TttCell(ttt, 2) = 1
    /\ TttCell(ttt, 3) = 2
    /\ ttt.moves_count = 4
    /\ last.result = CONTINUE

\* the board of the engine under test
BoardUnderTest == IF engine = "tictactoe" THEN ttt ELSE gomoku

HasEmptyCell(g) ==
    \E i \in DOMAIN g.board : \E j \in DOMAIN g.board[i] : g.board[i][j] = 0

\* C14: for every unfinished game of either type with 'AI' to move and for
\* every difficulty, get_ai_move returns a move that make_move('AI', move)
\* accepts on that same game; it returns no move only when the board has no
\* empty cell.
C14_AiMoveAccepted ==
    [][last'.op = "get_ai_move"
       => /\ last'.move = <<>> => ~HasEmptyCell(BoardUnderTest)
          /\ last'.move # <<>> => last'.result \in {CONTINUE, WIN, DRAW}]_vars

\* C14 witness: on the Gomoku board the hard policy returned the cell that
\* completes five in a row for AI, and the move was accepted as a win.
C14_Witness ==
    /\ engine = "gomoku"
    /\ last.op = "get_ai_move"
    /\ last.difficulty = "hard"
    /\ last.result = WIN
    /\ gomoku.winner = AI

----------------------------------------------------------------------------
(* Serialisation of the boards: to_dict and from_dict (specification       *)
(* SpecDict: the board engines of SpecGames, with a round trip through the *)
(* dictionary at any point of a game).                                     *)

\* BaseGame.to_dict
base_to_dict(g) ==
    [player1_id     |-> g.player1_id,
     player2_id     |-> g.player2_id,
     current_player |-> g.current_player,
     moves_count    |-> g.moves_count,
     is_finished    |-> g.is_finished,
     winner         |-> g.winner,
     board_state    |-> g.board]

\* data.update({...}): the keys of extra added to (or replaced in) data
DictUpdate(data, extra) ==
    [k \in DOMAIN data \cup DOMAIN extra |->
        IF k \in DOMAIN extra THEN extra[k] ELSE data[k]]

\* TicTacToe.to_dict
ttt_to_dict(g) ==
    DictUpdate(base_to_dict(g),
               [game_type      |-> "tictactoe",
                board          |-> g.board,
                player_numbers |-> <<g.player1_id, g.player2_id>>])

\* TicTacToe.from_dict
ttt_from_dict(data) ==
    [TicTacToe(data["player1_id"], data["player2_id"]) EXCEPT
        !.board          = data["board"],
        !.current_player = data["current_player"],
        !.moves_count    = data["moves_count"],
        !.is_finished    = data["is_finished"],
        !.winner         = data["winner"]]

\* Gomoku.to_dict
gomoku_to_dict(g) ==
    DictUpdate(base_to_dict(g),
               [game_type      |-> "gomoku",
                board_size     |-> board_size,
                board          |-> g.board,
                player_numbers |-> <<g.player1_id, g.player2_id>>,
                last_move      |-> g.last_move])

\* a from_dict that restores the board and the turn but not the outcome
gomoku_from_dict_Unfinished(data) ==
    [Gomoku(data["player1_id"], data["player2_id"]) EXCEPT
        !.board          = data["board"],
        !.current_player = data["current_player"],
        !.moves_count    = data["moves_count"]]

\* Gomoku.from_dict (data.get: both keys are always written by to_dict)
gomoku_from_dict(data) ==
    [Gomoku(data["player1_id"], data["player2_id"]) EXCEPT
        !.board          = data["board"],
        !.current_player = data["current_player"],
        !.moves_count    = data["moves_count"],
        !.is_finished    = data["is_finished"],
        !.winner         = data["winner"],
        !.last_move      = IF "last_move" \in DOMAIN data
                           THEN data["last_move"] ELSE <<>>]

\* TicTacToe.from_dict(game.to_dict()) at any point of a game
TttRoundTrip ==
    /\ engine = "tictactoe"
    /\ last' = [op |-> "round_trip", restored |-> ttt_from_dict(ttt_to_dict(ttt))]
    /\ UNCHANGED <<registry, waiting_players, now, ttt, gomoku, engine, lane,
                   text, elsewhere>>

\* Gomoku.from_dict(game.to_dict()) at any point of a game
GomokuRoundTrip ==
    /\ engine = "gomoku"
    /\ last' = [op |-> "round_trip",
                restored |-> gomoku_from_dict(gomoku_to_dict(gomoku))]
    /\ UNCHANGED <<registry, waiting_players, now, ttt, gomoku, engine, lane,
                   text, elsewhere>>

NextDict ==
    \/ TttMakeMove
    \/ GomokuMakeMove
    \/ TttRoundTrip
    \/ GomokuRoundTrip

SpecDict == InitGames /\ [][NextDict]_vars

\* C15: for every reachable TicTacToe and Gomoku game, finished ones
\* included, from_dict(to_dict(g)) has the same grid, current_player,
\* moves_count, is_finished and winner as g.
C15_RoundTripPreserves ==
    last.op = "round_trip"
    => /\ last.restored.board = BoardUnderTest.board
       /\ last.restored.current_player = BoardUnderTest.current_player
       /\ last.restored.moves_count = BoardUnderTest.moves_count
       /\ last.restored.is_finished = BoardUnderTest.is_finished
       /\ last.restored.winner = BoardUnderTest.winner

\* C15 witness: a Gomoku game won by the second player went through the
\* dictionary.
C15_Witness ==
    /\ last.op = "round_trip"
    /\ engine = "gomoku"
    /\ gomoku.is_finished
    /\ gomoku.winner = "u2"
    /\ last.restored.winner = "u2"

----------------------------------------------------------------------------
(* Claims about pairing (specification SpecCmd).                           *)

\* the players validly waiting in the queue of (group_id, game_type) at t
WaitingIn(wp, group_id, game_type, t) ==
    get_waiting_players(wp, group_id, game_type, t).users

\* some registered session of game_type in group_id has both a and b as
\* its players
PlayTogether(games, group_id, game_type, a, b) ==
    \E id \in DOMAIN games :
        /\ games[id].group_id = group_id
        /\ games[id].game_type = game_type
        /\ is_player_in_game(games[id], a)
        /\ is_player_in_game(games[id], b)

\* C16: when a start-PvP or join-PvP command of C takes the waiting player W
\* out of the queue as C's opponent, then at the end of the command either
\* a session of that group and game type with both C and W is registered,
\* or (create_game failed) W is still in the waiting queue.
C16_PairingAllOrNothing ==
    [][last'.op \in {"start_pvp", "join_pvp"}
       => \A w \in Players \ {last'.user_id} :
             (/\ last'.reply \in {"game_started", "create_failed"}
              /\ w \in WaitingIn(waiting_players, last'.group_id,
                                 last'.game_type, now))
             => \/ PlayTogether(active_games', last'.group_id,
                                last'.game_type, last'.user_id, w)
                \/ w \in WaitingIn(waiting_players', last'.group_id,
                                   last'.game_type, now)]_vars

----------------------------------------------------------------------------
(* SpecThreads: two handler threads inside the registry.  GameManager holds *)
(* no lock, so the threads interleave between statements.  A step is one    *)
(* simple statement together with the test of the if that guards it;        *)
(* statements that touch only locals are joined to the next one.  A lookup  *)
(* runs between any two steps.                                              *)

Threads == {"t1", "t2"}

MaxCalls == 2   \* registry calls a thread makes

\* the group the threads' commands come from
ThreadGroups == {"g1"}

IdleFrame ==
    [op |-> "idle", pc |-> 0, calls |-> 0, result |-> None, rival |-> FALSE,
     game_type |-> None, player1_id |-> None, player2_id |-> None,
     group_id |-> None, bot_id |-> 0, game_id |-> None, session |-> NoGame]

Running(f) == f.pc > 0

\* the frame of a call that returned (or raised) with result
Returned(f, result) == [f EXCEPT !.pc = 0, !.result = result]

StepOut(r, f) == [reg |-> r, frame |-> f]

\* GameManager.create_game, statement by statement
create_game_step(r, f, t) ==
    CASE f.pc = 1 ->      \* if player1_id in self.user_games: raise
            IF f.player1_id \in DOMAIN r.user_games
            THEN StepOut(r, Returned(f, "raised"))
            ELSE StepOut(r, [f EXCEPT !.pc = 2])
      [] f.pc = 2 ->      \* if player2_id != 'AI' and player2_id in self.user_games
            IF f.player2_id # AI /\ f.player2_id \in DOMAIN r.user_games
            THEN StepOut(r, Returned(f, "raised"))
            ELSE StepOut(r, [f EXCEPT !.pc = 3])
      [] f.pc = 3 ->      \* game_id, session, self.active_games[game_id] = session
            LET game_id == generate_game_id(f.game_type, f.player1_id, f.group_id, t)
                session == GameSession(game_id, f.game_type, f.player1_id,
                                       f.player2_id, f.group_id, f.bot_id, t)
            IN  StepOut([r EXCEPT !.active_games = DictSet(@, game_id, session)],
                        [f EXCEPT !.pc = 4, !.game_id = game_id,
                                  !.session = session])
      [] f.pc = 4 ->      \* self.user_games[player1_id] = game_id
            StepOut([r EXCEPT !.user_games = DictSet(@, f.player1_id, f.game_id)],
                    [f EXCEPT !.pc = 5])
      [] f.pc = 5 ->      \* if player2_id != 'AI': self.user_games[player2_id] = game_id
            StepOut(IF f.player2_id # AI
                    THEN [r EXCEPT !.user_games = DictSet(@, f.player2_id, f.game_id)]
                    ELSE r,
                    [f EXCEPT !.pc = 6])
      [] f.pc = 6 ->      \* if group_id not in self.group_games: ... = []
            StepOut(IF f.group_id \notin DOMAIN r.group_games
                    THEN [r EXCEPT !.group_games = DictSet(@, f.group_id, <<>>)]
                    ELSE r,
                    [f EXCEPT !.pc = 7])
      [] f.pc = 7 ->      \* self.group_games[group_id].append(game_id)
            IF f.group_id \notin DOMAIN r.group_games
            THEN StepOut(r, Returned(f, "KeyError"))
            ELSE StepOut([r EXCEPT !.group_games[f.group_id] = Append(@, f.game_id)],
                         [f EXCEPT !.pc = 8])
      [] f.pc = 8 ->      \* if bot_id not in self.bot_games: ... = []
            StepOut(IF f.bot_id \notin DOMAIN r.bot_games
                    THEN [r EXCEPT !.bot_games = DictSet(@, f.bot_id, <<>>)]
                    ELSE r,
                    [f EXCEPT !.pc = 9])
      [] OTHER ->         \* self.bot_games[bot_id].append(game_id); return session
            IF f.bot_id \notin DOMAIN r.bot_games
            THEN StepOut(r, Returned(f, "KeyError"))
            ELSE StepOut([r EXCEPT !.bot_games[f.bot_id] = Append(@, f.game_id)],
                         Returned(f, "ok"))

\* GameManager.remove_game, statement by statement
remove_game_step(r, f) ==
    CASE f.pc = 1 ->      \* if game_id not in self.active_games: return False
            IF f.game_id \notin DOMAIN r.active_games
            THEN StepOut(r, Returned(f, "False"))
            ELSE StepOut(r, [f EXCEPT !.pc = 2])
      [] f.pc = 2 ->      \* session = self.active_games[game_id]
            IF f.game_id \notin DOMAIN r.active_games
            THEN StepOut(r, Returned(f, "KeyError"))
            ELSE StepOut(r, [f EXCEPT !.pc = 3,
                                      !.session = r.active_games[f.game_id]])
      [] f.pc = 3 ->      \* if session.player1_id in self.user_games: del ...
            StepOut([r EXCEPT !.user_games = DictDel(@, f.session.player1_id)],
                    [f EXCEPT !.pc = 4])
      [] f.pc = 4 ->      \* if session.player2_id != 'AI' and ... : del ...
            StepOut(IF f.session.player2_id # AI
                    THEN [r EXCEPT !.user_games = DictDel(@, f.session.player2_id)]
                    ELSE r,
                    [f EXCEPT !.pc = 5])
      [] f.pc = 5 ->      \* if group_id in self.group_games: if game_id in ...: remove
            IF f.session.group_id \notin DOMAIN r.group_games
            THEN StepOut(r, [f EXCEPT !.pc = 7])
            ELSE StepOut([r EXCEPT !.group_games[f.session.group_id] =
                                       SeqRemoveFirst(@, f.game_id)],
                         [f EXCEPT !.pc = 6])
      [] f.pc = 6 ->      \* if not self.group_games[group_id]: del ...
            IF f.session.group_id \notin DOMAIN r.group_games
            THEN StepOut(r, Returned(f, "KeyError"))
            ELSE StepOut(IF r.group_games[f.session.group_id] = <<>>
                         THEN [r EXCEPT !.group_games = DictDel(@, f.session.group_id)]
                         ELSE r,
                         [f EXCEPT !.pc = 7])
      [] f.pc = 7 ->      \* if bot_id in self.bot_games: if game_id in ...: remove
            IF f.session.bot_id \notin DOMAIN r.bot_games
            THEN StepOut(r, [f EXCEPT !.pc = 9])
            ELSE StepOut([r EXCEPT !.bot_games[f.session.bot_id] =
                                       SeqRemoveFirst(@, f.game_id)],
                         [f EXCEPT !.pc = 8])
      [] f.pc = 8 ->      \* if not self.bot_games[bot_id]: del ...
            IF f.session.bot_id \notin DOMAIN r.bot_games
            THEN StepOut(r, Returned(f, "KeyError"))
            ELSE StepOut(IF r.bot_games[f.session.bot_id] = <<>>
                         THEN [r EXCEPT !.bot_games = DictDel(@, f.session.bot_id)]
                         ELSE r,
                         [f EXCEPT !.pc = 9])
      [] OTHER ->         \* del self.active_games[game_id]; return True
            IF f.game_id \notin DOMAIN r.active_games
            THEN StepOut(r, Returned(f, "KeyError"))
            ELSE StepOut([r EXCEPT !.active_games = DictDel(@, f.game_id)],
                         Returned(f, "True"))

\* the real players two create_game calls have in common
SharedPlayers(f, g) ==
    ({f.player1_id, f.player2_id} \cap {g.player1_id, g.player2_id}) \ {AI}

InitThreads ==
    /\ active_games = EmptyDict
    /\ user_games = EmptyDict
    /\ group_games = EmptyDict
    /\ bot_games = EmptyDict
    /\ waiting_players = EmptyDict
    /\ now = 0
    /\ ttt = TicTacToe("u1", "u2")
    /\ gomoku = Gomoku("u1", "u2")
    /\ engine = "registry"
    /\ lane = 0
    /\ text = <<>>
    /\ roulette = None
    /\ threads = [t \in Threads |-> IdleFrame]
    /\ saved = <<>>
    /\ last = [op |-> "init"]

ThreadsFrame ==
    UNCHANGED <<waiting_players, now, ttt, gomoku, engine, lane, text,
                roulette, saved>>

\* a handler thread enters create_game: a PvP game, or a game against AI
CallCreateGame ==
    \E t \in Threads, player1_id \in Players, group_id \in ThreadGroups :
    \E player2_id \in (Players \ {player1_id}) \cup {AI} :
        /\ ~Running(threads[t])
        /\ threads[t].calls < MaxCalls
        /\ threads' = [threads EXCEPT ![t] =
               [IdleFrame EXCEPT !.op = "create_game", !.pc = 1,
                    !.calls = threads[t].calls + 1,
                    !.game_type = "tictactoe", !.player1_id = player1_id,
                    !.player2_id = player2_id, !.group_id = group_id,
                    !.bot_id = IF player2_id = AI THEN 1 ELSE PvpBotId]]
        /\ last' = [op |-> "call"]
        /\ UNCHANGED registry
        /\ ThreadsFrame

\* a handler thread enters remove_game for a session it looked up
CallRemoveGame ==
    \E t \in Threads, game_id \in DOMAIN active_games :
        /\ ~Running(threads[t])
        /\ threads[t].calls < MaxCalls
        /\ threads' = [threads EXCEPT ![t] =
               [IdleFrame EXCEPT !.op = "remove_game", !.pc = 1,
                                 !.calls = threads[t].calls + 1,
                                 !.game_id = game_id]]
        /\ last' = [op |-> "call"]
        /\ UNCHANGED registry
        /\ ThreadsFrame

\* one statement of create_game; a successful return is noted in the frame
\* of every create_game still running that names one of its players
CreateGameStep ==
    \E t \in Threads :
        /\ Running(threads[t])
        /\ threads[t].op = "create_game"
        /\ LET out == create_game_step(Reg, threads[t], now)
           IN  /\ SetReg(out.reg)
               /\ threads' = [u \in Threads |->
                     IF u = t THEN out.frame
                     ELSE IF /\ out.frame.result = "ok"
                             /\ threads[u].op = "create_game"
                             /\ Running(threads[u])
                             /\ SharedPlayers(out.frame, threads[u]) # {}
                          THEN [threads[u] EXCEPT !.rival = TRUE]
                          ELSE threads[u]]
        /\ last' = [op |-> "step"]
        /\ ThreadsFrame

\* one statement of remove_game
RemoveGameStep ==
    \E t \in Threads :
        /\ Running(threads[t])
        /\ threads[t].op = "remove_game"
        /\ LET out == remove_game_step(Reg, threads[t])
           IN  /\ SetReg(out.reg)
               /\ threads' = [threads EXCEPT ![t] = out.frame]
        /\ last' = [op |-> "step"]
        /\ ThreadsFrame

\* get_user_game(user_id, group_id) of a third handler, between two steps
Lookup ==
    \E user_id \in Players, group_id \in ThreadGroups :
        /\ last' = [op |-> "get_user_game", user_id |-> user_id,
                    group_id |-> group_id,
                    session |-> get_user_game(Reg, user_id, group_id)]
        /\ UNCHANGED <<registry, threads>>
        /\ ThreadsFrame

NextThreads ==
    \/ CallCreateGame
    \/ CallRemoveGame
    \/ CreateGameStep
    \/ RemoveGameStep
    \/ Lookup

SpecThreads == InitThreads /\ [][NextThreads]_vars

\* the three index entries of a session are all present in the registry r
Indexed(r, session) ==
    /\ session.player1_id \in DOMAIN r.user_games
    /\ r.user_games[session.player1_id] = session.game_id
    /\ session.player2_id # AI
       => /\ session.player2_id \in DOMAIN r.user_games
          /\ r.user_games[session.player2_id] = session.game_id
    /\ session.group_id \in DOMAIN r.group_games
    /\ SeqContains(r.group_games[session.group_id], session.game_id)
    /\ session.bot_id \in DOMAIN r.bot_games
    /\ SeqContains(r.bot_games[session.bot_id], session.game_id)

\* no create_game succeeded while an overlapping create_game naming one of
\* its players succeeded too
NoDoubleCreate ==
    \A t \in Threads :
        ~(/\ threads[t].op = "create_game"
          /\ threads[t].result = "ok"
          /\ threads[t].rival)

\* C17: the registry operations are mutually exclusive: under every
\* interleaving of threads at statement granularity a lookup that finds a
\* session finds it with its user, group and host index entries, and two
\* overlapping create_game calls that name the same player never both
\* succeed.
C17_RegistryMutuallyExclusive ==
    /\ [][(last'.op = "get_user_game" /\ last'.session # NoGame)
          => Indexed(Reg, last'.session)]_vars
    /\ []NoDoubleCreate

----------------------------------------------------------------------------
(* SpecPlay: one session, of either game, against AI or between u1 and u2, *)
(* played through the move commands.  _make_tictactoe_move and             *)
(* _make_gomoku_move have the same shape and are modelled by one handler.  *)
(* The handler is suspended at its two awaits of render_to_image; while it *)
(* is suspended the surrender command may run (and, in SpecSweep, the      *)
(* timeout sweep and the clock).  The board object of the session is the variable ttt or gomoku,    *)
(* the session's game_state refers to it.  The frame of the handler keeps  *)
(* the session object it looked up.                                        *)

PlayGroup == "g1"

IdleHandler(moved_at) ==
    [pc |-> "idle", user_id |-> None, session |-> NoGame, result |-> None,
     winner |-> None, moved_at |-> moved_at]

\* the board object of the session
PlayBoard == IF engine = "tictactoe" THEN ttt ELSE gomoku

\* the positions a player sends with the move command
PlayMoves(user_id) ==
    IF engine = "tictactoe" THEN 1..9
    ELSE {CellText(rc[1], rc[2]) : rc \in LaneCells(1, user_id)}

\* game.make_move(player_id, move) on the board of the session
play_make_move(g, player_id, move) ==
    IF g.kind = "tictactoe" THEN ttt_make_move(g, player_id, move)
    ELSE gomoku_make_move(g, player_id, move)

SetBoard(g) ==
    /\ ttt' = IF engine = "tictactoe" THEN g ELSE ttt
    /\ gomoku' = IF engine = "gomoku" THEN g ELSE gomoku

\* session.moves_count = game.moves_count, on the session object: the one in
\* the registry when it is still registered
SetMovesCount(r, session, moves_count) ==
    IF session.game_id \in DOMAIN r.active_games
    THEN [r EXCEPT !.active_games[session.game_id].moves_count = moves_count]
    ELSE r

\* db_manager.save_game_record of _save_game_result
GameRecord(session, winner_id, moves_count) ==
    [game_id |-> session.game_id, winner_id |-> winner_id,
     moves_count |-> moves_count]

\* the sessions followed: tic-tac-toe against AI and between two players,
\* Gomoku against AI
PlayKinds == {<<"tictactoe", AI>>, <<"tictactoe", "u2">>, <<"gomoku", AI>>}

\* _start_tictactoe_ai_game / _create_tictactoe_pvp_game and their Gomoku
\* twins have run: the session is registered and its board is new
InitPlay ==
    /\ \E kind \in PlayKinds :
        LET game_type == kind[1]
            opponent == kind[2]
            res == create_game(EmptyReg, game_type, "u1", opponent, PlayGroup,
                               IF opponent = AI THEN 1 ELSE PvpBotId, 0)
            reg == [res.reg EXCEPT
                      !.active_games[res.session.game_id].game_state =
                          [kind |-> game_type]]
        IN  /\ active_games = reg.active_games
            /\ user_games = reg.user_games
            /\ group_games = reg.group_games
            /\ bot_games = reg.bot_games
            /\ engine = game_type
            /\ ttt = TicTacToe("u1", opponent)
            /\ gomoku = Gomoku("u1", opponent)
    /\ waiting_players = EmptyDict
    /\ now = 0
    /\ lane = 0
    /\ text = <<>>
    /\ roulette = None
    /\ threads = IdleHandler(0)
    /\ saved = <<>>
    /\ last = [op |-> "init"]

PlayFrame == UNCHANGED <<waiting_players, now, engine, lane, text, roulette>>

\* _make_tictactoe_move / _make_gomoku_move up to the first await: the
\* lookup, the player's move, session.moves_count
MoveCommand ==
    \E user_id \in Players :
    \E position \in PlayMoves(user_id) :
        LET session == get_user_game(Reg, user_id, PlayGroup)
            res == play_make_move(PlayBoard, user_id, position)
        IN  /\ threads.pc = "idle"
            /\ IF session = NoGame \/ session.game_type # engine
               THEN /\ last' = [op |-> "move", reply |-> "no_game"]
                    /\ UNCHANGED <<registry, ttt, gomoku, threads>>
               ELSE IF res.result = RAISED
               THEN /\ last' = [op |-> "move", reply |-> "failed"]
                    /\ UNCHANGED <<registry, ttt, gomoku, threads>>
               ELSE /\ SetBoard(res.game)
                    /\ SetReg(SetMovesCount(Reg, session, res.game.moves_count))
                    /\ IF res.result = INVALID
                       THEN /\ last' = [op |-> "move", reply |-> INVALID]
                            /\ UNCHANGED threads
                       ELSE /\ last' = [op |-> "await"]
                            /\ threads' = [pc |-> "render", user_id |-> user_id,
                                           session |-> session,
                                           result |-> res.result,
                                           winner |-> res.winner,
                                           moved_at |-> now]
            /\ UNCHANGED saved
            /\ PlayFrame

\* the end of a move command: json.dumps(game.to_dict()),
\* _save_game_result, remove_game when the move won or drew
EndOfMove(r, f, result, winner) ==
    /\ IF result \in {WIN, DRAW}
       THEN /\ saved' = Append(saved, GameRecord(f.session, winner,
                                                 PlayBoard.moves_count))
            /\ SetReg(remove_game(r, f.session.game_id).reg)
       ELSE /\ saved' = saved
            /\ SetReg(r)
    /\ threads' = IdleHandler(f.moved_at)
    /\ last' = [op |-> "move", reply |-> result, game_id |-> f.session.game_id]

\* the handler resumes after the image of the player's move: the end of the
\* command when the move finished the game or AI is not to move, else the
\* reply of AI (always 'medium') up to the second await
ResumeAfterRender ==
    /\ threads.pc = "render"
    /\ IF threads.result \in {WIN, DRAW}
       THEN /\ UNCHANGED <<ttt, gomoku>>
            /\ EndOfMove(Reg, threads, threads.result, threads.winner)
       ELSE IF ~(threads.session.is_ai_game /\ PlayBoard.current_player = AI)
       THEN /\ UNCHANGED <<ttt, gomoku>>
            /\ EndOfMove(Reg, threads, threads.result, threads.winner)
       ELSE \E ai_move \in get_ai_move(PlayBoard, "medium") :
            IF ai_move = <<>>
            THEN /\ UNCHANGED <<registry, ttt, gomoku, saved>>
                 /\ threads' = IdleHandler(threads.moved_at)
                 /\ last' = [op |-> "move", reply |-> None]
            ELSE LET ai_result == play_make_move(PlayBoard, AI, ai_move[1])
                 IN  /\ SetBoard(ai_result.game)
                     /\ SetReg(SetMovesCount(Reg, threads.session,
                                             ai_result.game.moves_count))
                     /\ threads' = [threads EXCEPT !.pc = "ai_render",
                                        !.result = ai_result.result,
                                        !.winner = ai_result.winner,
                                        !.moved_at = now]
                     /\ last' = [op |-> "ai_moved", result |-> ai_result.result]
                     /\ UNCHANGED saved
    /\ PlayFrame

\* the handler resumes after the image of AI's move
ResumeAfterAiRender ==
    /\ threads.pc = "ai_render"
    /\ UNCHANGED <<ttt, gomoku>>
    /\ EndOfMove(Reg, threads, threads.result, threads.winner)
    /\ PlayFrame

\* handle_surrender of a player of the session (its await of
\* _save_game_result never suspends: the coroutine holds no await)
PlaySurrender ==
    \E user_id \in Players :
        LET game == get_user_game(Reg, user_id, PlayGroup)
            winner_id == IF game.is_ai_game THEN AI
                         ELSE get_opponent(game, user_id)
        IN  /\ IF game = NoGame
               THEN /\ UNCHANGED <<registry, saved>>
                    /\ last' = [op |-> "surrender", reply |-> "nothing_to_cancel"]
               ELSE /\ saved' = Append(saved, GameRecord(game, winner_id,
                                                         game.moves_count))
                    /\ SetReg(remove_game(Reg, game.game_id).reg)
                    /\ last' = [op |-> "surrender", reply |-> "surrendered",
                                game_id |-> game.game_id]
            /\ UNCHANGED <<ttt, gomoku, threads>>
            /\ PlayFrame

NextPlay ==
    \/ MoveCommand
    \/ ResumeAfterRender
    \/ ResumeAfterAiRender
    \/ PlaySurrender

SpecPlay == InitPlay /\ [][NextPlay]_vars

\* SpecSweep: a tic-tac-toe session against AI played through the same
\* commands while the clock runs and the host calls cleanup_timeout_games.
InitSweep ==
    /\ InitPlay
    /\ engine = "tictactoe"
    /\ ttt.player2_id = AI

NextSweep ==
    \/ MoveCommand
    \/ ResumeAfterRender
    \/ ResumeAfterAiRender
    \/ PlaySurrender
    \/ CleanupTimeoutGames
    \/ Tick

SpecSweep == InitSweep /\ [][NextSweep]_vars

----------------------------------------------------------------------------
(* Claims about the move commands (specifications SpecPlay and SpecSweep). *)

\* the step is the handler resuming from one of its awaits
Resumes == threads.pc \in {"render", "ai_render"} /\ threads'.pc # threads.pc

\* how many of the persisted records are of game_id
TimesSaved(game_id) ==
    Cardinality({i \in DOMAIN saved : saved[i].game_id = game_id})

\* C18: when the session was removed while the move handler was suspended
\* at an await, the resumed handler applies no further move to the board
\* and persists no result, and no session's result is persisted twice.
C18_StaleHandlerDiscards ==
    /\ [][(Resumes /\ threads.session.game_id \notin DOMAIN active_games)
          => UNCHANGED <<ttt, gomoku, saved>>]_vars
    /\ [](\A i \in DOMAIN saved : TimesSaved(saved[i].game_id) <= 1)

\* the sessions whose last accepted move, or creation, is more than
\* timeout_minutes old at t (SpecSweep follows one session; the handler's
\* frame notes when its last move was accepted)
Stale(games, timeout_minutes, t) ==
    {id \in DOMAIN games : t - threads.moved_at > timeout_minutes * SecondsPerMinute}

\* C19: cleanup_timeout_games(T) removes, and returns the ids of, exactly
\* the sessions whose most recent accepted move (or creation) is older than
\* T; a session with a move accepted less than T ago stays.
C19_SweepByLastMove ==
    [][last'.op = "cleanup_timeout_games"
       => /\ last'.ids = Stale(active_games, last'.timeout_minutes, now)
          /\ DOMAIN active_games' =
                DOMAIN active_games \ Stale(active_games, last'.timeout_minutes, now)]_vars

\* game_id is in none of the four maps of the registry r
Absent(r, game_id) ==
    /\ game_id \notin DOMAIN r.active_games
    /\ \A u \in DOMAIN r.user_games : r.user_games[u] # game_id
    /\ \A g \in DOMAIN r.group_games : ~SeqContains(r.group_games[g], game_id)
    /\ \A b \in DOMAIN r.bot_games : ~SeqContains(r.bot_games[b], game_id)

\* the registry after the step
RegAfter ==
    [active_games |-> active_games', user_games |-> user_games',
     group_games |-> group_games', bot_games |-> bot_games']

\* C20: when a move command ends with Win or Draw (by the player's move or
\* by AI's reply) and when a surrender ends, the session is in none of
\* active_games, user_games, group_games and bot_games, and create_game
\* accepts each of its players again.
C20_EndedSessionIsGone ==
    [][(\/ last'.op = "move" /\ last'.reply \in {WIN, DRAW}
        \/ last'.op = "surrender" /\ last'.reply = "surrendered")
       => /\ Absent(RegAfter, last'.game_id)
          /\ \A p \in Players : ~AlreadyInGame(RegAfter, p, AI)]_vars

\* C20 witness: a move command ended with AI's winning reply and the
\* registry is empty.
C20_Witness ==
    /\ last.op = "move"
    /\ last.reply = WIN
    /\ PlayBoard.winner = AI
    /\ saved # <<>>
    /\ Absent(Reg, last.game_id)
    /\ user_games = EmptyDict

----------------------------------------------------------------------------
(* SpecBots: the commands that create sessions, each delivered through one *)
(* of the bots (handle_message_hook stores the bot id of the message in    *)
(* _current_bot_id before the command runs), and the stop hook of a bot.   *)

AiBotId == 1           \* create_game('tictactoe', user_id, 'AI', group_id, 1)

\* _start_tictactoe_ai_game / _start_gomoku_ai_game: the registry part
_start_ai_game(r, wp, user_id, group_id, game_type, t) ==
    IF get_user_game(r, user_id, group_id) # NoGame
    THEN Outcome(r, wp, "in_game")
    ELSE LET res == create_game(r, game_type, user_id, AI, group_id, AiBotId, t)
         IN  IF res.raised THEN Outcome(r, wp, "create_failed")
             ELSE Outcome([res.reg EXCEPT
                              !.active_games[res.session.game_id].game_state =
                                  NewGame(game_type, user_id, AI)],
                          wp, "game_started")

\* a command handled by current_bot_id
BotCommand(op, out, user_id, group_id, current_bot_id) ==
    /\ SetReg(out.reg)
    /\ waiting_players' = out.wp
    /\ last' = [op |-> op, user_id |-> user_id, group_id |-> group_id,
                bot_id |-> current_bot_id, reply |-> out.reply]
    /\ UNCHANGED now
    /\ BoardsUnchanged

BotStartAi ==
    \E u \in Players, g \in Groups, b \in Bots :
        BotCommand("start_ai",
                   _start_ai_game(Reg, waiting_players, u, g, "tictactoe", now),
                   u, g, b)

BotStartPvp ==
    \E u \in Players, g \in Groups, b \in Bots :
        BotCommand("start_pvp",
                   _start_pvp(Reg, waiting_players, u, g, "tictactoe", now),
                   u, g, b)

BotJoinPvp ==
    \E u \in Players, g \in Groups, b \in Bots :
        BotCommand("join_pvp",
                   _join_pvp(Reg, waiting_players, u, g, "tictactoe", now),
                   u, g, b)

BotSurrender ==
    \E u \in Players, g \in Groups, b \in Bots :
        BotCommand("surrender", handle_surrender(Reg, waiting_players, u, g),
                   u, g, b)

\* on_bot_stop_hook(bot_id)
OnBotStop ==
    \E b \in Bots :
        LET res == cleanup_bot_games(Reg, b)
        IN  /\ SetReg(res.reg)
            /\ last' = [op |-> "bot_stop", bot_id |-> b, count |-> res.count]
            /\ UNCHANGED <<waiting_players, now>>
            /\ BoardsUnchanged

NextBots ==
    \/ BotStartAi
    \/ BotStartPvp
    \/ BotJoinPvp
    \/ BotSurrender
    \/ OnBotStop

SpecBots == Init /\ [][NextBots]_vars

\* the sessions registered by the step
Created == DOMAIN active_games' \ DOMAIN active_games

\* C21: every session is indexed in bot_games under the id of the bot that
\* handled the command which created it (so that the stop hook of bot b
\* removes the sessions created through b and no others).
C21_IndexedByHandlingBot ==
    [][\A id \in Created :
          /\ active_games'[id].bot_id = last'.bot_id
          /\ last'.bot_id \in DOMAIN bot_games'
          /\ SeqContains(bot_games'[last'.bot_id], id)]_vars

----------------------------------------------------------------------------
(* The roulette duel as the plugin drives it: the human's commands and the *)
(* AI turn of RussianRoulette/__init__.py with the policy of ai.py.        *)

\* GameState.get_remaining_bullets: (real, blank) from the cursor on
get_remaining_bullets(g) ==
    LET rest == {i \in (g.current_bullet + 1)..Len(g.bullets) : TRUE}
        real_bullets == Cardinality({i \in rest : g.bullets[i]})
    IN  <<real_bullets, Cardinality(rest) - real_bullets>>

\* RouletteAI.known_next_bullet when make_decision runs: _execute_ai_turn
\* builds a new RouletteAI for every decision, so it is still None
known_next_bullet == <<>>

\* RouletteAI._analyze_situation; the probabilities are kept as the pair
\* real_bullets / total_bullets and compared by cross-multiplication
_analyze_situation(g) ==
    LET rem == get_remaining_bullets(g)
    IN  [total_bullets |-> rem[1] + rem[2],
         real_bullets |-> rem[1],
         blank_bullets |-> rem[2],
         is_disadvantaged |-> g.ai.hp * g.player.max_hp < g.player.hp * g.ai.max_hp,
         is_advantaged |-> g.ai.hp * g.player.max_hp > g.player.hp * g.ai.max_hp,
         is_critical |-> g.ai.hp <= 1,
         known_next |-> known_next_bullet]

\* real_probability > tenths / 10 and real_probability < tenths / 10
\* (real_probability is 0 when no bullet is left)
RealProbabilityAbove(analysis, tenths) ==
    /\ analysis.total_bullets > 0
    /\ 10 * analysis.real_bullets > tenths * analysis.total_bullets

RealProbabilityBelow(analysis, tenths) ==
    \/ analysis.total_bullets = 0
    \/ 10 * analysis.real_bullets < tenths * analysis.total_bullets

\* RouletteAI._evaluate_item_usage: does it return an action for the item
_evaluate_item_usage(g, item_key, analysis) ==
    \/ /\ item_key = "magnifier"
       /\ analysis.total_bullets > 0
       /\ analysis.known_next = <<>>
    \/ /\ item_key \in {"cigarette", "medicine"}
       /\ g.ai.hp < g.ai.max_hp
       /\ analysis.is_critical \/ RealProbabilityBelow(analysis, 4)
    \/ /\ item_key = "saw"
       /\ g.damage_multiplier = 1
       /\ analysis.known_next = <<TRUE>> \/ RealProbabilityAbove(analysis, 5)
    \/ /\ item_key = "beer"
       /\ analysis.total_bullets > 0
       /\ analysis.known_next = <<TRUE>> \/ RealProbabilityAbove(analysis, 7)
    \/ /\ item_key = "handcuffs"
       /\ analysis.is_disadvantaged \/ analysis.is_critical

\* RouletteAI._consider_items: the index (from 0) of the first item of the hand
\* that is worth using, as <<index>>, or <<>> for None
_consider_items(g, analysis) ==
    LET usable == {i \in DOMAIN g.ai.items :
                      _evaluate_item_usage(g, g.ai.items[i], analysis)}
    IN  IF usable = {} THEN <<>>
        ELSE <<(CHOOSE i \in usable : \A j \in usable : i <= j) - 1>>

\* RouletteAI._decide_shoot_target: target_self; coin is random.choice
_decide_shoot_target(analysis, coin) ==
    IF analysis.known_next # <<>> THEN ~analysis.known_next[1]
    ELSE IF analysis.total_bullets = 0 THEN coin
    ELSE IF RealProbabilityAbove(analysis, 6) THEN FALSE
    ELSE IF RealProbabilityBelow(analysis, 4) THEN TRUE
    ELSE IF analysis.is_critical THEN FALSE
    ELSE analysis.is_advantaged

\* RouletteAI.make_decision
make_decision(g, coin) ==
    LET analysis == _analyze_situation(g)
        item_action == _consider_items(g, analysis)
    IN  IF item_action # <<>>
        THEN [action |-> "use_item", item_index |-> item_action[1],
              target_self |-> FALSE]
        ELSE [action |-> "shoot", item_index |-> -1,
              target_self |-> _decide_shoot_target(analysis, coin)]

\* the outcomes of random.choice([True, False]) that a decision can consume
CoinsOf(g) ==
    IF _analyze_situation(g).total_bullets = 0 THEN BOOLEAN ELSE {FALSE}

\* state.round_num is read by display.py only; it is counted up to MaxRounds
\* and held there, so that a duel of any length stays in the model
KeepRound(g) ==
    [g EXCEPT !.round_num = IF @ > MaxRounds THEN MaxRounds ELSE @]

\* one call of _execute_ai_turn is running (the root call or a recursive one)
AiFrame == [op |-> "_execute_ai_turn"]
AiTurnRunning == threads = <<AiFrame>>
DuelIdle == threads = <<>>

DuelFrame ==
    UNCHANGED <<registry, waiting_players, now, ttt, gomoku, engine, lane, text,
                saved>>

\* who used the handcuffs last, carried through the history record
CuffsBy == last.cuffs_by

InitDuel ==
    /\ active_games = EmptyDict
    /\ user_games = EmptyDict
    /\ group_games = EmptyDict
    /\ bot_games = EmptyDict
    /\ waiting_players = EmptyDict
    /\ now = 0
    /\ ttt = TicTacToe("u1", "u2")
    /\ gomoku = Gomoku("u1", "u2")
    /\ engine = "roulette"
    /\ lane = 0
    /\ text = <<>>
    /\ \E draw \in Draws : roulette = RussianRouletteGame(draw)
    /\ threads = <<>>
    /\ saved = <<>>
    /\ last = [op |-> "init", cuffs_by |-> None]

\* _start_new_game: the old game is deleted, a new one is created
DuelStart ==
    /\ DuelIdle
    /\ \E draw \in Draws : roulette' = RussianRouletteGame(draw)
    /\ last' = [op |-> "start", cuffs_by |-> None]
    /\ UNCHANGED threads
    /\ DuelFrame

\* handle_roulette_command dispatches the human's commands while the game is
\* not over and it is the human's turn (current_player = 0).
\* _handle_shoot: the human's shot; when the turn passes, the AI turn starts
\* inside the same command
DuelShoot ==
    /\ DuelIdle
    /\ ~roulette.game_over
    /\ roulette.current_player = 0
    /\ \E target_self \in BOOLEAN :
       \E draw \in DrawsOf(roulette, target_self) :
        LET res == shoot(roulette, target_self, draw)
            g1 == KeepRound(res.game)
            passes == ~g1.game_over /\ ~res.result.continue_turn
            g2 == IF passes THEN switch_turn(g1) ELSE g1
        IN  /\ roulette' = g2
            /\ threads' = IF passes /\ g2.current_player = 1
                          THEN <<AiFrame>> ELSE <<>>
            /\ last' = [op |-> "shoot", side |-> "player",
                        target_self |-> target_self,
                        result |-> res.result, cuffs_by |-> CuffsBy]
    /\ DuelFrame

\* _handle_use_item: the human uses an item; the turn stays where it is
DuelUseItem ==
    /\ DuelIdle
    /\ ~roulette.game_over
    /\ roulette.current_player = 0
    /\ \E item_index \in 0..item_count :
        LET res == use_item(roulette, item_index)
        IN  /\ roulette' = res.game
            /\ last' = [op |-> "use_item", side |-> "player",
                        item |-> res.result.item,
                        cuffs_by |-> IF res.result.item = "handcuffs"
                                     THEN "player" ELSE CuffsBy]
    /\ UNCHANGED threads
    /\ DuelFrame

\* _execute_ai_turn, the handcuffs branch: the flag is cleared, the turn is
\* switched and the call returns
AiSkip ==
    /\ AiTurnRunning
    /\ roulette.skip_next_turn
    /\ roulette' = switch_turn([roulette EXCEPT !.skip_next_turn = FALSE])
    /\ threads' = <<>>
    /\ last' = [op |-> "skip_turn", skipped |-> CurrentSide(roulette),
                cuffs_by |-> CuffsBy]
    /\ DuelFrame

\* _execute_ai_turn, the AI uses an item: still the AI's turn, so the
\* function calls itself
AiUseItem ==
    /\ AiTurnRunning
    /\ ~roulette.skip_next_turn
    /\ \E coin \in CoinsOf(roulette) :
        LET action == make_decision(roulette, coin)
            res == use_item(roulette, action.item_index)
            again == res.game.current_player = 1
        IN  /\ action.action = "use_item"
            /\ roulette' = IF again THEN res.game ELSE switch_turn(res.game)
            /\ threads' = IF again THEN <<AiFrame>> ELSE <<>>
            /\ last' = [op |-> "use_item", side |-> "ai",
                        item |-> res.result.item,
                        cuffs_by |-> IF res.result.item = "handcuffs"
                                     THEN "ai" ELSE CuffsBy]
    /\ DuelFrame

\* _execute_ai_turn, the AI shoots: a blank at itself continues the turn by a
\* recursive call, any other shot switches the turn and ends the call
AiShoot ==
    /\ AiTurnRunning
    /\ ~roulette.skip_next_turn
    /\ \E coin \in CoinsOf(roulette) :
        LET action == make_decision(roulette, coin)
        IN  /\ action.action = "shoot"
            /\ \E draw \in DrawsOf(roulette, action.target_self) :
                LET res == shoot(roulette, action.target_self, draw)
                    g1 == KeepRound(res.game)
                    again == res.result.continue_turn
                IN  /\ roulette' = IF again THEN g1 ELSE switch_turn(g1)
                    /\ threads' = IF again THEN <<AiFrame>> ELSE <<>>
                    /\ last' = [op |-> "shoot", side |-> "ai",
                                target_self |-> action.target_self,
                                result |-> res.result, cuffs_by |-> CuffsBy]
    /\ DuelFrame

AiStep == AiSkip \/ AiUseItem \/ AiShoot

NextDuel ==
    \/ DuelStart
    \/ DuelShoot
    \/ DuelUseItem
    \/ AiSkip
    \/ AiUseItem
    \/ AiShoot

SpecDuel == InitDuel /\ [][NextDuel]_vars

\* C22: a turn skipped because of the handcuffs is never the turn of the side
\* that used them: it is the turn of that side's opponent
C22_HandcuffsSkipOpponent ==
    [][last'.op = "skip_turn" =>
          /\ last.cuffs_by # None
          /\ last'.skipped # last.cuffs_by]_vars

\* the calls of _execute_ai_turn run to their end: the handler is synchronous
\* code, every level of the recursion that is entered is executed
SpecDuelLive == SpecDuel /\ WF_vars(AiStep)

\* C28: every root call of _execute_ai_turn comes to its end, with the game
\* over or the turn handed back to the human
C28_AiTurnTerminates ==
    AiTurnRunning ~>
        /\ DuelIdle
        /\ roulette.game_over \/ roulette.current_player = 0

----------------------------------------------------------------------------
\* C23: once the saw has armed the multiplier, a blank shot leaves it armed,
\* and a real hit deals 2 damage and puts the multiplier back to 1
C23_SawArmedUntilRealHit ==
    [][last'.op = "shoot" /\ roulette.damage_multiplier = 2 =>
          IF last'.result.is_real
          THEN last'.result.damage = 2 /\ roulette'.damage_multiplier = 1
          ELSE roulette'.damage_multiplier = 2]_vars

\* the two Player objects of a game
Sides == {"player", "ai"}

\* C30: both players keep 0 <= hp <= max_hp; the game is over exactly when a
\* player's hp is 0, and then exactly one player's hp is 0 and the winner is
\* the other player's name
C30_HpAndGameOver ==
    /\ \A s \in Sides : 0 <= roulette[s].hp /\ roulette[s].hp <= roulette[s].max_hp
    /\ roulette.game_over <=> \E s \in Sides : roulette[s].hp = 0
    /\ roulette.game_over =>
          \E s \in Sides :
              /\ roulette[s].hp = 0
              /\ \A o \in Sides \ {s} :
                    roulette[o].hp > 0 /\ roulette.winner = roulette[o].name

\* a player died of their own shot: the opponent is the winner
C30_Witness ==
    /\ roulette.game_over
    /\ last.op = "shoot"
    /\ last.target_self
    /\ last.result.target_died
    /\ roulette.winner = roulette[OpponentSide(roulette)].name

----------------------------------------------------------------------------
(* SpecHard: a tic-tac-toe game of the user "u1" (first player) against    *)
(* 'AI', every reply of which is get_ai_move(game, 'hard').                *)

InitHard == InitAi /\ engine = "tictactoe"

AiTttHardMove ==
    /\ engine = "tictactoe"
    /\ ~ttt.is_finished
    /\ ttt.current_player = AI
    /\ \E mv \in get_ai_move(ttt, "hard") :
        LET res == AiReply(ttt, mv)
        IN  /\ ttt' = res.game
            /\ last' = [op |-> "get_ai_move", difficulty |-> "hard", move |-> mv,
                        result |-> res.result]
    /\ UNCHANGED <<registry, waiting_players, now, gomoku, engine, lane, text, elsewhere>>

NextHard ==
    \/ UserTttMove
    \/ AiTttHardMove

SpecHard == InitHard /\ [][NextHard]_vars

\* the nine cells of a board, by position
Cells(g) == [m \in 1..9 |-> TttCell(g, m)]

HasLine(cells, mark) == \E line \in TttLines : \A k \in line : cells[k] = mark

EmptyCells(cells) == {m \in 1..9 : cells[m] = 0}

SetMax(S) == CHOOSE x \in S : \A y \in S : y <= x
SetMin(S) == CHOOSE x \in S : \A y \in S : x <= y

\* the minimax value of a position for mark 2 (AI), with mark to move: +10 a
\* win of AI, -10 a loss, 0 a draw, AI maximizing and the opponent minimizing,
\* searched to the end of the game
RECURSIVE MinimaxValue(_, _)
MinimaxValue(cells, mark) ==
    IF HasLine(cells, 2) THEN 10
    ELSE IF HasLine(cells, 1) THEN -10
    ELSE IF EmptyCells(cells) = {} THEN 0
    ELSE LET values == {MinimaxValue([cells EXCEPT ![m] = mark], 3 - mark) :
                            m \in EmptyCells(cells)}
         IN  IF mark = 2 THEN SetMax(values) ELSE SetMin(values)

\* the first empty cell, in ascending order, whose position after AI's mark
\* has the greatest minimax value
BestCell(cells) ==
    LET value == [m \in EmptyCells(cells) |->
                     MinimaxValue([cells EXCEPT ![m] = 2], 1)]
        best == SetMax({value[m] : m \in EmptyCells(cells)})
    IN  SetMin({m \in EmptyCells(cells) : value[m] = best})

\* C24: the hard policy returns the first empty cell in ascending order whose
\* resulting position has the greatest minimax value; an AI that always plays
\* hard as second player never reaches a position the opponent has won
C24_HardPolicy ==
    /\ [][last'.op = "get_ai_move" => last'.move = <<BestCell(Cells(ttt))>>]_vars
    /\ [](~HasLine(Cells(ttt), 1) /\ ttt.winner # "u1")

\* C24 witness: the user took the centre; the four corners draw and the four
\* edges lose, and the hard policy answered with the first corner
C24_Witness ==
    /\ last.op = "get_ai_move"
    /\ last.difficulty = "hard"
    /\ last.move = <<1>>
    /\ TttCell(ttt, 5) = 1
    /\ ttt.moves_count = 2
    /\ MinimaxValue(Cells(ttt), 1) = 0
    /\ MinimaxValue([[m \in 1..9 |-> 0] EXCEPT ![5] = 1, ![2] = 2], 1) = -10

----------------------------------------------------------------------------
\* C25: for every accepted tic-tac-toe move the result is Win, with the mover
\* as winner, exactly when the grid after the move holds a line of three of
\* the mover's marks; Draw exactly when the grid is full without such a line;
\* Continue otherwise
C25_TttOutcome ==
    [][last'.op = "ttt_make_move" /\ last'.result # INVALID =>
          LET cells == Cells(ttt')
              line == HasLine(cells, MarkOf(ttt, last'.player_id))
              full == EmptyCells(cells) = {}
          IN  /\ last'.result \in {WIN, DRAW, CONTINUE}
              /\ last'.result = WIN <=> line
              /\ last'.result = WIN => last'.winner = last'.player_id
              /\ last'.result = DRAW <=> full /\ ~line
              /\ last'.result = CONTINUE <=> ~full /\ ~line]_vars

\* C25 witness: the ninth move completed a line and was answered Win
C25_Witness ==
    /\ last.op = "ttt_make_move"
    /\ last.result = WIN
    /\ last.winner = "u1"
    /\ ttt.moves_count = 9
    /\ EmptyCells(Cells(ttt)) = {}
    /\ HasLine(Cells(ttt), 1)

----------------------------------------------------------------------------
\* C26: get_ai_move, for either game and every difficulty, leaves the game it
\* is given as it was: grid, current_player, moves_count, is_finished, winner
\* and, for Gomoku, last_move
C26_AiMoveLeavesGame ==
    [][last'.op = "get_ai_move" => last'.game = BoardUnderTest]_vars

\* C26 witness: the hard tic-tac-toe policy searched the game tree below a
\* position of three marks, answered, and its answer was played on the
\* position as the user had left it
C26_Witness ==
    /\ engine = "tictactoe"
    /\ last.op = "get_ai_move"
    /\ last.difficulty = "hard"
    /\ last.move # <<>>
    /\ last.game.moves_count = 3
    /\ last.game.current_player = AI
    /\ ttt.moves_count = 4
    /\ EmptyCells(Cells(last.game)) = EmptyCells(Cells(ttt)) \cup {last.move[1]}

----------------------------------------------------------------------------
\* a move was accepted on the board of the session: its moves_count grew
MoveAccepted ==
    IF engine = "tictactoe" THEN ttt'.moves_count > ttt.moves_count
    ELSE gomoku'.moves_count > gomoku.moves_count

\* C27: after every accepted move in a registered session, the session's
\* current_player is the board's current_player
C27_SessionTurnFollowsBoard ==
    [][MoveAccepted =>
          \A id \in DOMAIN active_games' :
              active_games'[id].current_player =
                  (IF engine = "tictactoe" THEN ttt'.current_player
                   ELSE gomoku'.current_player)]_vars

----------------------------------------------------------------------------
(* SpecLevels: SpecPlay for the games against AI, started at each          *)
(* difficulty.  The start handlers keep the difficulty in a local variable *)
(* only; text holds it as the record of what the start command asked for.  *)

\* the difficulty names difficulty_map leaves as they are
DifficultyInputs == {"easy", "medium", "hard"}

\* _start_tictactoe_ai_game / _start_gomoku_ai_game have run with args =
\* [difficulty]: the session is registered and its board is new
InitLevels ==
    /\ \E game_type \in GameTypes, difficulty \in DifficultyInputs :
        LET out == _start_ai_game(EmptyReg, EmptyDict, "u1", PlayGroup,
                                  game_type, 0)
            id == CHOOSE i \in DOMAIN out.reg.active_games : TRUE
            reg == [out.reg EXCEPT !.active_games[id].game_state =
                                       [kind |-> game_type]]
        IN  /\ difficulty \in Difficulties
            /\ active_games = reg.active_games
            /\ user_games = reg.user_games
            /\ group_games = reg.group_games
            /\ bot_games = reg.bot_games
            /\ engine = game_type
            /\ text = <<difficulty>>
    /\ ttt = TicTacToe("u1", AI)
    /\ gomoku = Gomoku("u1", AI)
    /\ waiting_players = EmptyDict
    /\ now = 0
    /\ lane = 0
    /\ roulette = None
    /\ threads = IdleHandler(0)
    /\ saved = <<>>
    /\ last = [op |-> "init"]

SpecLevels == InitLevels /\ [][NextPlay]_vars

\* the difficulty the game was started with
StartedWith == text[1]

\* C29: in a game against AI started with difficulty d, every reply of AI is
\* a move the policy of difficulty d returns on the board it answers
C29_ReplyByChosenPolicy ==
    [][last'.op = "ai_moved" =>
          \E mv \in get_ai_move(PlayBoard, StartedWith) :
              /\ mv # <<>>
              /\ (IF engine = "tictactoe" THEN ttt' ELSE gomoku') =
                     play_make_move(PlayBoard, AI, mv[1]).game]_vars

=============================================================================
